---- MODULE Spec2Model ----
(***************************************************************************)
(* templaar: template resolution and instantiation (the `take` command).   *)
(*                                                                         *)
(* A file name is a sequence of characters, a path is a sequence of file   *)
(* names (the root is the empty path), and the filesystem is a function    *)
(* from the existing paths to their nodes.                                 *)
(***************************************************************************)
EXTENDS Integers, Sequences, FiniteSets, TLC

VARIABLES fs, fs0, pc, cwd, name, template, dir, templ, target,
          templ_files, target_files, result, log,
          templ_name, global, files, templ_file, copied,
          gpc, attempt

\* the locals of the new command
newvars == <<templ_name, global, files, templ_file, copied>>

vars == <<fs, fs0, pc, cwd, name, template, dir, templ, target,
          templ_files, target_files, result, log, newvars, gpc, attempt>>

(***************************************************************************)
(* Bounds                                                                  *)
(***************************************************************************)
\* number of entries (templates, targets, other files) the initial
\* filesystem holds besides the fixed directories
MaxEntries == 3

\* length of the longest template name the codec is applied to
MaxNameLen == 3

\* number of times a command is run, the repetitions after a failure included
MaxAttempts == 2

\* the processes that may call global_dir at the same time
Procs == {"p", "q"}

(***************************************************************************)
(* Option values                                                           *)
(***************************************************************************)
None == [some |-> FALSE, v |-> <<>>]
Some(x) == [some |-> TRUE, v |-> x]

(***************************************************************************)
(* File names                                                              *)
(***************************************************************************)
\* the name new gives a template when the user enters none
n_templ == <<"t", "e", "m", "p", "l">>
AAR == <<"a", "a", "r">>
DOT == <<".">>

n_t == <<"t">>
n_o == <<"o">>
n_f == <<"f">>
n_g == <<"g">>
n_x == <<"x">>
n_sub == <<"s", "u", "b">>
n_w == <<"w">>
n_s == <<"s">>
n_h == <<"h">>
n_config == <<".", "c", "o", "n", "f", "i", "g">>
n_templaar == <<"t", "e", "m", "p", "l", "a", "a", "r">>
n_t_txt == <<"t", ".", "t", "x", "t">>
n_t_AAR == <<"t", ".", "A", "A", "R">>

\* index of the last '.' of a file name, 0 if there is none
LastDot(n) ==
    LET dots == {i \in 1..Len(n) : n[i] = "."}
    IN IF dots = {} THEN 0 ELSE CHOOSE i \in dots : \A j \in dots : j <= i

\* Path::file_stem of the std library: the part before the last '.', the
\* whole name when there is no '.' or the only '.' is the first character
file_stem(n) ==
    IF LastDot(n) <= 1 THEN n ELSE SubSeq(n, 1, LastDot(n) - 1)

\* Path::extension of the std library
extension(n) ==
    IF LastDot(n) <= 1 THEN None ELSE Some(SubSeq(n, LastDot(n) + 1, Len(n)))

file_name(path) == path[Len(path)]

templ_to_path(t, is_global) ==
    LET prefix == IF is_global THEN <<>> ELSE DOT
    IN prefix \o t \o DOT \o AAR

\* path_to_templ that leaves the leading dot in the name
path_to_templ_keep_dot(path) == file_stem(file_name(path))

path_to_templ(path) ==
    LET stem == file_stem(file_name(path))
    IN IF Len(stem) > 0 /\ stem[1] = "." THEN SubSeq(stem, 2, Len(stem)) ELSE stem

is_templ(path) == extension(file_name(path)) = Some(AAR)

(***************************************************************************)
(* Filesystem                                                              *)
(***************************************************************************)
File(d) == [kind |-> "file", data |-> d]
Directory == [kind |-> "dir", data |-> ""]

exists(f, p) == p \in DOMAIN f
is_dir(f, p) == exists(f, p) /\ f[p].kind = "dir"
is_file(f, p) == exists(f, p) /\ f[p].kind = "file"

parent(p) == IF Len(p) = 0 THEN None ELSE Some(SubSeq(p, 1, Len(p) - 1))
join(d, n) == Append(d, n)

\* the paths fs::read_dir(d) yields, as a set (the order is the OS's)
read_dir(f, d) ==
    {p \in DOMAIN f : Len(p) = Len(d) + 1 /\ SubSeq(p, 1, Len(d)) = d}

\* every order in which an iterator may yield the elements of S
Orders(S) ==
    {s \in [1..Cardinality(S) -> S] : \A i, j \in 1..Cardinality(S) : s[i] = s[j] => i = j}

create_dir(f, p) == (p :> Directory) @@ f

\* fs::copy(from, to): `to` is created or truncated and gets from's bytes
copy(f, from, to) == (to :> File(f[from].data)) @@ f
can_copy(f, from, to) ==
    /\ is_file(f, from)
    /\ ~is_dir(f, to)
    /\ Len(to) > 0 /\ is_dir(f, SubSeq(to, 1, Len(to) - 1))

remove_file(f, p) == [q \in DOMAIN f \ {p} |-> f[q]]

ROOT == <<>>
W == <<n_w>>
S == <<n_w, n_s>>
HOME == <<n_h>>
CONFIG == <<n_h, n_config>>

\* the path global_dir computes: $HOME/.config/templaar
GlobalPath == <<n_h, n_config, n_templaar>>

(***************************************************************************)
(* Initial filesystems: the fixed directories /, /w, /w/s and /h, the      *)
(* global templates directory in one of its three stages, and at most      *)
(* MaxEntries entries drawn from Entries.                                  *)
(***************************************************************************)
dot_t_aar == templ_to_path(n_t, FALSE)
dot_o_aar == templ_to_path(n_o, FALSE)
t_aar == templ_to_path(n_t, TRUE)
o_aar == templ_to_path(n_o, TRUE)

Entry(p, nodes) == [top |-> p, nodes |-> nodes]

FileAt(p, d) == Entry(p, p :> File(d))
EmptyDirAt(p) == Entry(p, p :> Directory)
DirWith(p, n, d) == Entry(p, (p :> Directory) @@ (join(p, n) :> File(d)))
FlatDirAt(p) ==
    Entry(p, (p :> Directory) @@ (join(p, n_f) :> File("F")) @@ (join(p, n_g) :> File("G")))
NestedDirAt(p) ==
    Entry(p, (p :> Directory) @@ (join(p, n_f) :> File("F")) @@ (join(p, n_sub) :> Directory))

\* templates in d
TemplateEntries(d, tag) ==
    { FileAt(join(d, dot_t_aar), "T" \o tag),
      FlatDirAt(join(d, dot_t_aar)),
      FileAt(join(d, dot_o_aar), "O" \o tag) }

\* a template take must refuse, what may lie at the target path d/t before
\* take runs, and entries whose names resemble the one of the template t
OtherEntries(d, tag) ==
    { NestedDirAt(join(d, dot_t_aar)),
      FileAt(join(d, n_t), "old" \o tag),
      EmptyDirAt(join(d, n_t)),
      DirWith(join(d, n_t), n_f, "oldf" \o tag),
      DirWith(join(d, n_t), n_x, "oldx" \o tag),
      FileAt(join(d, t_aar), "plainT" \o tag),
      FileAt(join(d, n_t_txt), "txt" \o tag),
      FileAt(join(d, n_t_AAR), "upper" \o tag) }

GlobalEntries ==
    { FileAt(join(GlobalPath, t_aar), "T.g"),
      FileAt(join(GlobalPath, dot_t_aar), "dotT.g"),
      FileAt(join(GlobalPath, o_aar), "O.g") }

Entries ==
    TemplateEntries(S, ".s") \cup OtherEntries(S, ".s")
    \cup TemplateEntries(W, ".w")
    \cup { FileAt(join(ROOT, dot_t_aar), "T.root") }
    \cup GlobalEntries

RECURSIVE EntrySets(_)
EntrySets(k) ==
    IF k = 0 THEN {{}}
    ELSE LET P == EntrySets(k - 1)
         IN P \cup {s \cup {e} : s \in P, e \in Entries}

Base == (ROOT :> Directory) @@ (W :> Directory) @@ (S :> Directory) @@ (HOME :> Directory)

GlobalStages ==
    { Base,
      (CONFIG :> Directory) @@ Base,
      (GlobalPath :> Directory) @@ (CONFIG :> Directory) @@ Base }

Populate(base, es) ==
    [p \in DOMAIN base \cup UNION {DOMAIN e.nodes : e \in es} |->
        IF p \in DOMAIN base THEN base[p]
        ELSE (CHOOSE e \in es : p \in DOMAIN e.nodes).nodes[p]]

InitialFilesystems ==
    { Populate(base, es) :
        base \in GlobalStages,
        es \in {s \in EntrySets(MaxEntries) :
                  /\ \A a, b \in s : a.top = b.top => a = b} }

\* every existing path but the root lies in an existing directory
WellFormed(f) ==
    /\ is_dir(f, ROOT)
    /\ \A p \in DOMAIN f : Len(p) > 0 => is_dir(f, SubSeq(p, 1, Len(p) - 1))

(***************************************************************************)
(* Results of an invocation                                                *)
(***************************************************************************)
Res(kind) == [kind |-> kind, path |-> <<>>, names |-> <<>>, dir |-> <<>>]
Running == Res("running")
Ok == Res("Ok")
NoTemplateFound == Res("NoTemplateFound")
PathExists(p) == [Res("PathExists") EXCEPT !.path = p]
InvalidTemplate(p) == [Res("InvalidTemplate") EXCEPT !.path = p]
AmbiguousTemplate(ns, d) == [Res("AmbiguousTemplate") EXCEPT !.names = ns, !.dir = d]
IoError(p) == [Res("Io") EXCEPT !.path = p]
VarError == Res("VarError")
TemplExists(p) == [Res("TemplExists") EXCEPT !.path = p]

Ev(op, p) == [op |-> op, path |-> p, arg |-> <<>>]
Ev2(op, p, a) == [op |-> op, path |-> p, arg |-> a]

Init ==
    /\ fs \in {f \in InitialFilesystems : WellFormed(f)}
    /\ fs0 = fs
    /\ pc = "idle"
    /\ cwd = ROOT
    /\ name = None
    /\ template = None
    /\ dir = ROOT
    /\ templ = None
    /\ target = ROOT
    /\ templ_files = {}
    /\ target_files = {}
    /\ result = Running
    /\ log = <<>>
    /\ templ_name = <<>>
    /\ global = FALSE
    /\ files = <<>>
    /\ templ_file = ROOT
    /\ copied = 0
    /\ gpc = [p \in Procs |-> "idle"]
    /\ attempt = 1

(***************************************************************************)
(* utils.rs                                                                *)
(***************************************************************************)
templs_in_dir(f, d) == {p \in read_dir(f, d) : is_templ(p)}

Whitespace == {" ", "\n", "\t"}

trim(s) ==
    LET keep == {i \in 1..Len(s) : s[i] \notin Whitespace}
    IN IF keep = {} THEN <<>>
       ELSE SubSeq(s, CHOOSE i \in keep : \A j \in keep : i <= j,
                      CHOOSE i \in keep : \A j \in keep : j <= i)

lower(c) == CASE c = "N" -> "n" [] c = "Y" -> "y" [] c = "O" -> "o" [] OTHER -> c
to_lowercase(s) == [i \in 1..Len(s) |-> lower(s[i])]

\* user_prompt_bool that compares the line as it was read
user_prompt_bool_untrimmed(line) == to_lowercase(line) # <<"n">>


\* the answer user_prompt_bool gives for the line read from stdin
user_prompt_bool(line) == to_lowercase(trim(line)) # <<"n">>

\* lines the user may enter at a prompt (<<>> is end of input)
Lines == { <<"n", "\n">>, <<" ", "N", "\n">>, <<"y", "\n">>, <<"n", "o", "\n">>, <<"\n">>, <<>> }

(***************************************************************************)
(* take.rs: find_templ_in_dir.  The result is drawn from a set because the *)
(* order of the candidate names follows the order of fs::read_dir.         *)
(***************************************************************************)
Found(tag, file, err) == [tag |-> tag, file |-> file, err |-> err]

\* Classify that settles for any of several matches
Classify_any(matches, d) ==
    IF matches = {} THEN {Found("none", <<>>, Running)}
    ELSE {Found("some", m, Running) : m \in matches}

Classify(matches, d) ==
    IF matches = {} THEN {Found("none", <<>>, Running)}
    ELSE IF Cardinality(matches) = 1
         THEN {Found("some", CHOOSE m \in matches : TRUE, Running)}
         ELSE {Found("err", <<>>,
                     AmbiguousTemplate([i \in DOMAIN o |-> path_to_templ(o[i])], d)) :
                 o \in Orders(matches)}

find_templ_in_dir(f, d, nm) ==
    LET templates == templs_in_dir(f, d)
        matches == IF nm.some
                   THEN {t \in templates : path_to_templ(t) = nm.v}
                   ELSE templates
    IN Classify(matches, d)

\* main.rs: the single-file build's find_templ_in_dir
main_find_templ_in_dir(f, d, nm) ==
    LET templates == {p \in read_dir(f, d) :
                        IF nm.some THEN path_to_templ(p) = nm.v
                        ELSE extension(file_name(p)) = Some(AAR)}
    IN Classify(templates, d)

(***************************************************************************)
(* The take command, statement by statement                                *)
(***************************************************************************)
Cwds == {W, S}
NameArgs == {None, Some(n_t)}
TemplateArgs == {None, Some(n_t), Some(n_o)}

Finish(r) == /\ result' = r
             /\ pc' = "done"

\* the exit status main gives the process for the result of the command
exit_code(r) == IF r.kind = "Ok" THEN 0 ELSE 1

\* the process starts: `templaar take [name] [-t template]` in directory c
TakeStart ==
    /\ pc = "idle"
    /\ \E c \in Cwds, n \in NameArgs, t \in TemplateArgs :
         /\ cwd' = c
         /\ name' = n
         /\ template' = t
         /\ dir' = c
    /\ pc' = "find_templ"
    /\ fs0' = fs
    /\ UNCHANGED <<gpc, attempt, newvars, fs, templ, target, templ_files, target_files, result, log>>

\* the process starts in the global templates directory
TakeStartInGlobalDir ==
    /\ pc = "idle"
    /\ is_dir(fs, GlobalPath)
    /\ \E n \in NameArgs, t \in TemplateArgs :
         /\ cwd' = GlobalPath
         /\ name' = n
         /\ template' = t
         /\ dir' = GlobalPath
    /\ pc' = "find_templ"
    /\ fs0' = fs
    /\ UNCHANGED <<gpc, attempt, newvars, fs, templ, target, templ_files, target_files, result, log>>

\* find_templ_loop that gives up the walk at the first level without a match
find_templ_loop_no_walk(found) ==
    /\ pc = "find_templ"
    /\ log' = Append(log, Ev("scan", dir))
    /\ \E r \in found :
         CASE r.tag = "some" ->
                /\ templ' = Some(r.file)
                /\ pc' = "take"
                /\ UNCHANGED <<dir, result>>
           [] r.tag = "err" ->
                /\ Finish(r.err)
                /\ UNCHANGED <<dir, templ>>
           [] OTHER ->
                /\ pc' = "find_templ_global"
                /\ UNCHANGED <<dir, templ, result>>
    /\ UNCHANGED <<gpc, attempt, newvars, fs, fs0, cwd, name, template, target, templ_files, target_files>>

\* find_templ_loop that ends the walk before it scans the root
find_templ_loop_no_root(found) ==
    /\ pc = "find_templ"
    /\ log' = Append(log, Ev("scan", dir))
    /\ \E r \in found :
         CASE r.tag = "some" ->
                /\ templ' = Some(r.file)
                /\ pc' = "take"
                /\ UNCHANGED <<dir, result>>
           [] r.tag = "err" ->
                /\ Finish(r.err)
                /\ UNCHANGED <<dir, templ>>
           [] OTHER ->
                /\ dir' = IF Len(dir) > 1 THEN parent(dir).v ELSE dir
                /\ pc' = IF Len(dir) > 1 THEN "find_templ" ELSE "find_templ_global"
                /\ UNCHANGED <<templ, result>>
    /\ UNCHANGED <<gpc, attempt, newvars, fs, fs0, cwd, name, template, target, templ_files, target_files>>

\* one iteration of the loop of find_templ; found is what find_templ_in_dir
\* may return for dir
find_templ_loop(found) ==
    /\ pc = "find_templ"
    /\ log' = Append(log, Ev("scan", dir))
    /\ \E r \in found :
         CASE r.tag = "some" ->
                /\ templ' = Some(r.file)
                /\ pc' = "take"
                /\ UNCHANGED <<dir, result>>
           [] r.tag = "err" ->
                /\ Finish(r.err)
                /\ UNCHANGED <<dir, templ>>
           [] OTHER ->
                /\ dir' = IF parent(dir).some THEN parent(dir).v ELSE dir
                /\ pc' = IF parent(dir).some THEN "find_templ" ELSE "find_templ_global"
                /\ UNCHANGED <<templ, result>>
    /\ UNCHANGED <<gpc, attempt, newvars, fs, fs0, cwd, name, template, target, templ_files, target_files>>

\* global_dir that creates the directory without looking for it first
global_dir_ok_unchecked(f) == ~exists(f, GlobalPath) /\ is_dir(f, CONFIG)

\* global_dir: whether the call succeeds, and the filesystem it leaves
global_dir_ok(f) == exists(f, GlobalPath) \/ is_dir(f, CONFIG)
global_dir(f) == IF exists(f, GlobalPath) THEN f ELSE create_dir(f, GlobalPath)

\* find_templ_global without the return for a missing name
find_templ_global_unnamed(found) ==
    /\ pc = "find_templ_global"
    /\ IF ~global_dir_ok(fs)
       THEN /\ Finish(IoError(GlobalPath))
            /\ UNCHANGED <<fs, templ, log>>
       ELSE /\ fs' = global_dir(fs)
            /\ log' = log \o (IF exists(fs, GlobalPath) THEN <<>> ELSE <<Ev("mkdir", GlobalPath)>>)
                          \o <<Ev("scan", GlobalPath)>>
            /\ \E r \in found :
                 CASE r.tag = "some" ->
                        /\ templ' = Some(r.file)
                        /\ pc' = "take"
                        /\ UNCHANGED result
                   [] r.tag = "err" ->
                        /\ Finish(r.err)
                        /\ UNCHANGED templ
                   [] OTHER ->
                        /\ templ' = None
                        /\ pc' = "take"
                        /\ UNCHANGED result
    /\ UNCHANGED <<gpc, attempt, newvars, fs0, cwd, name, template, dir, target, templ_files, target_files>>

\* after the loop of find_templ: the search of the global directory; found is
\* what find_templ_in_dir may return for the directory global_dir returns
find_templ_global(found) ==
    /\ pc = "find_templ_global"
    /\ IF ~template.some
       THEN /\ templ' = None
            /\ pc' = "take"
            /\ UNCHANGED <<fs, result, log>>
       ELSE IF ~global_dir_ok(fs)
       THEN /\ Finish(IoError(GlobalPath))
            /\ UNCHANGED <<fs, templ, log>>
       ELSE /\ fs' = global_dir(fs)
            /\ log' = log \o (IF exists(fs, GlobalPath) THEN <<>> ELSE <<Ev("mkdir", GlobalPath)>>)
                          \o <<Ev("scan", GlobalPath)>>
            /\ \E r \in found :
                 CASE r.tag = "some" ->
                        /\ templ' = Some(r.file)
                        /\ pc' = "take"
                        /\ UNCHANGED result
                   [] r.tag = "err" ->
                        /\ Finish(r.err)
                        /\ UNCHANGED templ
                   [] OTHER ->
                        /\ templ' = None
                        /\ pc' = "take"
                        /\ UNCHANGED result
    /\ UNCHANGED <<gpc, attempt, newvars, fs0, cwd, name, template, dir, target, templ_files, target_files>>

\* take_target that puts the target beside the template it resolved
take_target_beside_template ==
    /\ pc = "take"
    /\ IF ~templ.some
       THEN /\ Finish(NoTemplateFound)
            /\ UNCHANGED target
       ELSE /\ target' = join(parent(templ.v).v,
                              IF name.some THEN name.v ELSE path_to_templ(templ.v))
            /\ pc' = IF is_dir(fs, templ.v) THEN "dir_templ_files" ELSE "file_exists"
            /\ UNCHANGED result
    /\ UNCHANGED <<gpc, attempt, newvars, fs, fs0, cwd, name, template, dir, templ, templ_files, target_files, log>>

\* take: the result of find_templ, the target path and the dispatch
take_target ==
    /\ pc = "take"
    /\ IF ~templ.some
       THEN /\ Finish(NoTemplateFound)
            /\ UNCHANGED target
       ELSE /\ target' = join(cwd, IF name.some THEN name.v ELSE path_to_templ(templ.v))
            /\ pc' = IF is_dir(fs, templ.v) THEN "dir_templ_files" ELSE "file_exists"
            /\ UNCHANGED result
    /\ UNCHANGED <<gpc, attempt, newvars, fs, fs0, cwd, name, template, dir, templ, templ_files, target_files, log>>

\* dir_templ_files without the check for sub-directories
dir_templ_files_unchecked ==
    /\ pc = "dir_templ_files"
    /\ templ_files' = read_dir(fs, templ.v)
    /\ pc' = "dir_create"
    /\ UNCHANGED <<gpc, attempt, newvars, fs, fs0, cwd, name, template, dir, templ, target, target_files, result, log>>

\* directory template: list the template, refuse sub-directories
dir_templ_files ==
    /\ pc = "dir_templ_files"
    /\ templ_files' = read_dir(fs, templ.v)
    /\ IF \E f \in read_dir(fs, templ.v) : is_dir(fs, f)
       THEN Finish(InvalidTemplate(templ.v))
       ELSE /\ pc' = "dir_create"
            /\ UNCHANGED result
    /\ UNCHANGED <<gpc, attempt, newvars, fs, fs0, cwd, name, template, dir, templ, target, target_files, log>>

\* directory template: create the target directory if it does not exist
dir_create ==
    /\ pc = "dir_create"
    /\ IF ~exists(fs, target)
       THEN /\ fs' = create_dir(fs, target)
            /\ log' = Append(log, Ev("mkdir", target))
       ELSE UNCHANGED <<fs, log>>
    /\ pc' = "dir_target_files"
    /\ UNCHANGED <<gpc, attempt, newvars, fs0, cwd, name, template, dir, templ, target, templ_files, target_files, result>>

\* dir_target_files that goes on whatever the user answers
dir_target_files_any_answer ==
    /\ pc = "dir_target_files"
    /\ IF ~is_dir(fs, target)
       THEN /\ Finish(IoError(target))
            /\ UNCHANGED <<target_files, log>>
       ELSE /\ target_files' = read_dir(fs, target)
            /\ IF read_dir(fs, target) # {}
               THEN \E line \in Lines :
                      /\ log' = Append(log, Ev2("prompt_nonempty", target, line))
                      /\ pc' = "dir_conflict"
                      /\ UNCHANGED result
               ELSE /\ pc' = "dir_conflict"
                    /\ UNCHANGED <<result, log>>
    /\ UNCHANGED <<gpc, attempt, newvars, fs, fs0, cwd, name, template, dir, templ, target, templ_files>>

\* directory template: list the target, ask before filling a non-empty one
dir_target_files ==
    /\ pc = "dir_target_files"
    /\ IF ~is_dir(fs, target)
       THEN /\ Finish(IoError(target))
            /\ UNCHANGED <<target_files, log>>
       ELSE /\ target_files' = read_dir(fs, target)
            /\ IF read_dir(fs, target) # {}
               THEN \E line \in Lines :
                      /\ log' = Append(log, Ev2("prompt_nonempty", target, line))
                      /\ IF ~user_prompt_bool(line)
                         THEN Finish(Ok)
                         ELSE /\ pc' = "dir_conflict"
                              /\ UNCHANGED result
               ELSE /\ pc' = "dir_conflict"
                    /\ UNCHANGED <<result, log>>
    /\ UNCHANGED <<gpc, attempt, newvars, fs, fs0, cwd, name, template, dir, templ, target, templ_files>>

\* the target's children that have the file name of a template child
Conflicts(tfs, tgs) ==
    {file \in tgs : \E f \in tfs : file_name(file) = file_name(f)}

\* dir_conflict without the check of the target's children
dir_conflict_unchecked ==
    /\ pc = "dir_conflict"
    /\ pc' = "dir_copy"
    /\ UNCHANGED <<gpc, attempt, newvars, fs, fs0, cwd, name, template, dir, templ, target, templ_files, target_files,
                   result, log>>

\* directory template: refuse a target that holds a file of the template
dir_conflict ==
    /\ pc = "dir_conflict"
    /\ IF Conflicts(templ_files, target_files) # {}
       THEN \E file \in Conflicts(templ_files, target_files) : Finish(PathExists(file))
       ELSE /\ pc' = "dir_copy"
            /\ UNCHANGED result
    /\ UNCHANGED <<gpc, attempt, newvars, fs, fs0, cwd, name, template, dir, templ, target, templ_files, target_files, log>>

\* dir_copy that leaves the loop after the first file
dir_copy_once ==
    /\ pc = "dir_copy"
    /\ IF templ_files = {}
       THEN /\ pc' = "editor"
            /\ UNCHANGED <<fs, templ_files, result, log>>
       ELSE \E file \in templ_files :
              LET to == join(target, file_name(file))
              IN IF can_copy(fs, file, to)
                 THEN /\ fs' = copy(fs, file, to)
                      /\ log' = Append(log, Ev2("copy", to, file))
                      /\ templ_files' = {}
                      /\ UNCHANGED <<pc, result>>
                 ELSE /\ Finish(IoError(to))
                      /\ UNCHANGED <<fs, templ_files, log>>
    /\ UNCHANGED <<gpc, attempt, newvars, fs0, cwd, name, template, dir, templ, target, target_files>>

\* directory template: one iteration of the copy loop
dir_copy ==
    /\ pc = "dir_copy"
    /\ IF templ_files = {}
       THEN /\ pc' = "editor"
            /\ UNCHANGED <<fs, templ_files, result, log>>
       ELSE \E file \in templ_files :
              LET to == join(target, file_name(file))
              IN IF can_copy(fs, file, to)
                 THEN /\ fs' = copy(fs, file, to)
                      /\ log' = Append(log, Ev2("copy", to, file))
                      /\ templ_files' = templ_files \ {file}
                      /\ UNCHANGED <<pc, result>>
                 ELSE /\ Finish(IoError(to))
                      /\ UNCHANGED <<fs, templ_files, log>>
    /\ UNCHANGED <<gpc, attempt, newvars, fs0, cwd, name, template, dir, templ, target, target_files>>

\* file_exists without the check of the target
file_exists_unchecked ==
    /\ pc = "file_exists"
    /\ pc' = "file_copy"
    /\ UNCHANGED <<gpc, attempt, newvars, fs, fs0, cwd, name, template, dir, templ, target, templ_files, target_files,
                   result, log>>

\* file_exists that copies over an existing file before it reports it
file_exists_after_copy ==
    /\ pc = "file_exists"
    /\ IF exists(fs, target)
       THEN /\ Finish(PathExists(target))
            /\ IF can_copy(fs, templ.v, target)
               THEN /\ fs' = copy(fs, templ.v, target)
                    /\ log' = Append(log, Ev2("copy", target, templ.v))
               ELSE UNCHANGED <<fs, log>>
       ELSE /\ pc' = "file_copy"
            /\ UNCHANGED <<fs, result, log>>
    /\ UNCHANGED <<gpc, attempt, newvars, fs0, cwd, name, template, dir, templ, target, templ_files, target_files>>

\* file template: refuse an existing target
file_exists ==
    /\ pc = "file_exists"
    /\ IF exists(fs, target)
       THEN Finish(PathExists(target))
       ELSE /\ pc' = "file_copy"
            /\ UNCHANGED result
    /\ UNCHANGED <<gpc, attempt, newvars, fs, fs0, cwd, name, template, dir, templ, target, templ_files, target_files, log>>

\* file template: copy the template into the target
file_copy ==
    /\ pc = "file_copy"
    /\ IF can_copy(fs, templ.v, target)
       THEN /\ fs' = copy(fs, templ.v, target)
            /\ log' = Append(log, Ev2("copy", target, templ.v))
            /\ pc' = "editor"
            /\ UNCHANGED result
       ELSE /\ Finish(IoError(target))
            /\ UNCHANGED <<fs, log>>
    /\ UNCHANGED <<gpc, attempt, newvars, fs0, cwd, name, template, dir, templ, target, templ_files, target_files>>

\* what $EDITOR may be: unset, a command that cannot be run, a command that
\* leaves the file alone (as `touch`), a command with which the user edits,
\* a command that leaves the file alone and exits with a failure status
Editors == {"unset", "invalid", "touch", "edit", "false"}

Edited(d) == d \o "+edit"

\* what the editor leaves in the file it was given, for the log
AtExit(f, p) == IF is_file(f, p) THEN <<f[p].data>> ELSE <<>>

\* editor that falls back to a command of its own when $EDITOR is not set
editor_with_fallback ==
    /\ pc = "editor"
    /\ \E e \in Editors :
         CASE e = "invalid" ->
                /\ Finish(IoError(<<>>))
                /\ log' = Append(log, Ev2("EDITOR", <<>>, <<e>>))
                /\ UNCHANGED fs
           [] e \in {"unset", "touch", "false"} ->
                /\ log' = log \o <<Ev2("EDITOR", <<>>, <<e>>),
                                   Ev2("editor", target, AtExit(fs, target))>>
                /\ pc' = "noop_check"
                /\ UNCHANGED <<fs, result>>
           [] OTHER ->
                /\ is_file(fs, target)
                /\ fs' = [fs EXCEPT ![target] = File(Edited(fs[target].data))]
                /\ log' = log \o <<Ev2("EDITOR", <<>>, <<e>>),
                                   Ev2("editor", target, AtExit(fs', target))>>
                /\ pc' = "noop_check"
                /\ UNCHANGED result
    /\ UNCHANGED <<gpc, attempt, newvars, fs0, cwd, name, template, dir, templ, target, templ_files, target_files>>

\* editor that takes the target file back when the editor cannot be started
editor_rollback ==
    /\ pc = "editor"
    /\ \E e \in Editors :
         CASE e = "unset" ->
                /\ Finish(VarError)
                /\ log' = Append(log, Ev2("EDITOR", <<>>, <<e>>))
                /\ fs' = IF is_file(fs, target) THEN remove_file(fs, target) ELSE fs
           [] e = "invalid" ->
                /\ Finish(IoError(<<>>))
                /\ log' = Append(log, Ev2("EDITOR", <<>>, <<e>>))
                /\ fs' = IF is_file(fs, target) THEN remove_file(fs, target) ELSE fs
           [] e \in {"touch", "false"} ->
                /\ log' = log \o <<Ev2("EDITOR", <<>>, <<e>>),
                                   Ev2("editor", target, AtExit(fs, target))>>
                /\ pc' = "noop_check"
                /\ UNCHANGED <<fs, result>>
           [] OTHER ->
                /\ is_file(fs, target)
                /\ fs' = [fs EXCEPT ![target] = File(Edited(fs[target].data))]
                /\ log' = log \o <<Ev2("EDITOR", <<>>, <<e>>),
                                   Ev2("editor", target, AtExit(fs', target))>>
                /\ pc' = "noop_check"
                /\ UNCHANGED result
    /\ UNCHANGED <<gpc, attempt, newvars, fs0, cwd, name, template, dir, templ, target, templ_files, target_files>>

\* open the target in the editor and wait for it
editor ==
    /\ pc = "editor"
    /\ \E e \in Editors :
         CASE e = "unset" ->
                /\ Finish(VarError)
                /\ log' = Append(log, Ev2("EDITOR", <<>>, <<e>>))
                /\ UNCHANGED fs
           [] e = "invalid" ->
                /\ Finish(IoError(<<>>))
                /\ log' = Append(log, Ev2("EDITOR", <<>>, <<e>>))
                /\ UNCHANGED fs
           [] e \in {"touch", "false"} ->
                /\ log' = log \o <<Ev2("EDITOR", <<>>, <<e>>),
                                   Ev2("editor", target, AtExit(fs, target))>>
                /\ pc' = "noop_check"
                /\ UNCHANGED <<fs, result>>
           [] OTHER ->
                /\ is_file(fs, target)
                /\ fs' = [fs EXCEPT ![target] = File(Edited(fs[target].data))]
                /\ log' = log \o <<Ev2("EDITOR", <<>>, <<e>>),
                                   Ev2("editor", target, AtExit(fs', target))>>
                /\ pc' = "noop_check"
                /\ UNCHANGED result
    /\ UNCHANGED <<gpc, attempt, newvars, fs0, cwd, name, template, dir, templ, target, templ_files, target_files>>

\* noop_check that keeps the target whatever the user answers
noop_check_keep ==
    /\ pc = "noop_check"
    /\ IF is_file(fs, templ.v) /\ ~is_file(fs, target)
       THEN /\ Finish(IoError(target))
            /\ UNCHANGED <<fs, log>>
       ELSE IF is_file(fs, templ.v) /\ fs[target].data = fs[templ.v].data
       THEN \E line \in Lines :
              /\ fs' = fs
              /\ log' = Append(log, Ev2("prompt_nochange", target, line))
              /\ Finish(Ok)
       ELSE /\ Finish(Ok)
            /\ UNCHANGED <<fs, log>>
    /\ UNCHANGED <<gpc, attempt, newvars, fs0, cwd, name, template, dir, templ, target, templ_files, target_files>>

\* file template: offer to drop a target that equals the template
noop_check ==
    /\ pc = "noop_check"
    /\ IF is_file(fs, templ.v) /\ ~is_file(fs, target)
       THEN /\ Finish(IoError(target))
            /\ UNCHANGED <<fs, log>>
       ELSE IF is_file(fs, templ.v) /\ fs[target].data = fs[templ.v].data
       THEN \E line \in Lines :
              /\ IF ~user_prompt_bool(line)
                 THEN /\ fs' = remove_file(fs, target)
                      /\ log' = log \o <<Ev2("prompt_nochange", target, line), Ev("remove", target)>>
                 ELSE /\ fs' = fs
                      /\ log' = Append(log, Ev2("prompt_nochange", target, line))
              /\ Finish(Ok)
       ELSE /\ Finish(Ok)
            /\ UNCHANGED <<fs, log>>
    /\ UNCHANGED <<gpc, attempt, newvars, fs0, cwd, name, template, dir, templ, target, templ_files, target_files>>

(***************************************************************************)
(* The new command, statement by statement                                 *)
(***************************************************************************)
\* the files a template is created from: none, one, several, several of
\* which two have the same file name in different directories, several of
\* which one may be a directory
FilesArgs ==
    { <<>>,
      <<join(S, n_t_txt)>>,
      <<join(S, n_t_txt), join(S, n_t_AAR)>>,
      <<join(S, dot_o_aar), join(W, dot_o_aar)>>,
      <<join(S, n_t_txt), join(S, n_t)>> }

\* what the user may enter for the name: nothing (end of input), an empty
\* line, a name, a name within white space
NameLines == { <<>>, <<"\n">>, <<"t", "\n">>, <<" ", "o", " ", "\n">> }

\* the process starts: `templaar new [name] [--global] [-f files]` in directory c
NewStart ==
    /\ pc = "idle"
    /\ \E c \in Cwds, n \in NameArgs, g \in BOOLEAN, f \in FilesArgs :
         /\ cwd' = c
         /\ name' = n
         /\ global' = g
         /\ files' = f
    /\ pc' = "new_templ_name"
    /\ fs0' = fs
    /\ UNCHANGED <<gpc, attempt, fs, template, dir, templ, target, templ_files, target_files, result, log,
                   templ_name, templ_file, copied>>

\* the name of the template: the argument, or the line read from stdin,
\* or the default
new_templ_name ==
    /\ pc = "new_templ_name"
    /\ IF name.some
       THEN /\ templ_name' = name.v
            /\ UNCHANGED log
       ELSE \E buf \in NameLines :
              /\ templ_name' = IF trim(buf) = <<>> THEN n_templ ELSE trim(buf)
              /\ log' = Append(log, Ev2("read_name", <<>>, buf))
    /\ pc' = "new_templ_file"
    /\ UNCHANGED <<gpc, attempt, fs, fs0, cwd, name, template, dir, templ, target, templ_files, target_files,
                   result, global, files, templ_file, copied>>

\* new_templ_file that puts every template into the working directory
new_templ_file_in_cwd ==
    /\ pc = "new_templ_file"
    /\ IF global /\ ~global_dir_ok(fs)
       THEN /\ Finish(IoError(GlobalPath))
            /\ UNCHANGED <<fs, log, templ_file>>
       ELSE /\ fs' = IF global THEN global_dir(fs) ELSE fs
            /\ log' = log \o (IF global /\ ~exists(fs, GlobalPath)
                              THEN <<Ev("mkdir", GlobalPath)>> ELSE <<>>)
            /\ templ_file' = join(cwd, templ_to_path(templ_name, global))
            /\ pc' = "new_exists"
            /\ UNCHANGED result
    /\ UNCHANGED <<gpc, attempt, fs0, cwd, name, template, dir, templ, target, templ_files, target_files,
                   templ_name, global, files, copied>>

\* the directory of the template by its scope, and the path of the template
new_templ_file ==
    /\ pc = "new_templ_file"
    /\ IF global /\ ~global_dir_ok(fs)
       THEN /\ Finish(IoError(GlobalPath))
            /\ UNCHANGED <<fs, log, templ_file>>
       ELSE /\ fs' = IF global THEN global_dir(fs) ELSE fs
            /\ log' = log \o (IF global /\ ~exists(fs, GlobalPath)
                              THEN <<Ev("mkdir", GlobalPath)>> ELSE <<>>)
            /\ templ_file' = join(IF global THEN GlobalPath ELSE cwd,
                                  templ_to_path(templ_name, global))
            /\ pc' = "new_exists"
            /\ UNCHANGED result
    /\ UNCHANGED <<gpc, attempt, fs0, cwd, name, template, dir, templ, target, templ_files, target_files,
                   templ_name, global, files, copied>>

\* new_exists without the check of the path of the template
new_exists_unchecked ==
    /\ pc = "new_exists"
    /\ pc' = "new_files"
    /\ UNCHANGED <<gpc, attempt, newvars, fs, fs0, cwd, name, template, dir, templ, target, templ_files,
                   target_files, result, log>>

\* refuse to replace a template
new_exists ==
    /\ pc = "new_exists"
    /\ IF exists(fs, templ_file)
       THEN Finish(TemplExists(templ_file))
       ELSE /\ pc' = "new_files"
            /\ UNCHANGED result
    /\ UNCHANGED <<gpc, attempt, newvars, fs, fs0, cwd, name, template, dir, templ, target, templ_files,
                   target_files, log>>

\* the content of the template: nothing yet, a copy of the one file, or a
\* directory for the copies of the files
new_files ==
    /\ pc = "new_files"
    /\ CASE Len(files) = 0 ->
              /\ pc' = "new_editor"
              /\ UNCHANGED <<fs, result, log>>
         [] Len(files) = 1 ->
              IF can_copy(fs, files[1], templ_file)
              THEN /\ fs' = copy(fs, files[1], templ_file)
                   /\ log' = Append(log, Ev2("copy", templ_file, files[1]))
                   /\ pc' = "new_editor"
                   /\ UNCHANGED result
              ELSE /\ Finish(IoError(files[1]))
                   /\ UNCHANGED <<fs, log>>
         [] OTHER ->
              /\ fs' = create_dir(fs, templ_file)
              /\ log' = Append(log, Ev("mkdir", templ_file))
              /\ pc' = "new_copy"
              /\ UNCHANGED result
    /\ UNCHANGED <<gpc, attempt, newvars, fs0, cwd, name, template, dir, templ, target, templ_files,
                   target_files>>

\* a copy loop that takes the template directory away again when a copy fails
new_copy_rollback ==
    /\ pc = "new_copy"
    /\ IF copied = Len(files)
       THEN /\ pc' = "new_editor"
            /\ UNCHANGED <<fs, result, log, copied>>
       ELSE LET f == files[copied + 1]
                to == join(templ_file, file_name(f))
                under == {q \in DOMAIN fs : /\ Len(q) >= Len(templ_file)
                                             /\ SubSeq(q, 1, Len(templ_file)) = templ_file}
            IN IF can_copy(fs, f, to)
               THEN /\ fs' = copy(fs, f, to)
                    /\ log' = Append(log, Ev2("copy", to, f))
                    /\ copied' = copied + 1
                    /\ UNCHANGED <<pc, result>>
               ELSE /\ Finish(IoError(f))
                    /\ fs' = [q \in DOMAIN fs \ under |-> fs[q]]
                    /\ UNCHANGED <<log, copied>>
    /\ UNCHANGED <<gpc, attempt, fs0, cwd, name, template, dir, templ, target, templ_files, target_files,
                   templ_name, global, files, templ_file>>

\* several files: one iteration of the copy loop
new_copy ==
    /\ pc = "new_copy"
    /\ IF copied = Len(files)
       THEN /\ pc' = "new_editor"
            /\ UNCHANGED <<fs, result, log, copied>>
       ELSE LET f == files[copied + 1]
                to == join(templ_file, file_name(f))
            IN IF can_copy(fs, f, to)
               THEN /\ fs' = copy(fs, f, to)
                    /\ log' = Append(log, Ev2("copy", to, f))
                    /\ copied' = copied + 1
                    /\ UNCHANGED <<pc, result>>
               ELSE /\ Finish(IoError(f))
                    /\ UNCHANGED <<fs, log, copied>>
    /\ UNCHANGED <<gpc, attempt, fs0, cwd, name, template, dir, templ, target, templ_files, target_files,
                   templ_name, global, files, templ_file>>

\* what the editor leaves at the path it was given: `touch` creates an empty
\* file where there is nothing, the user's editor saves the user's text,
\* and a command may as well leave everything as it is
EditorLeaves(f, p, e) ==
    CASE e = "touch" -> IF exists(f, p) THEN f ELSE (p :> File("")) @@ f
      [] e = "edit" -> (p :> File(Edited(IF is_file(f, p) THEN f[p].data ELSE ""))) @@ f
      [] OTHER -> f

\* open the template in the editor and wait for it
new_editor ==
    /\ pc = "new_editor"
    /\ \E e \in Editors \cup {"true"} :
         /\ e = "edit" => ~is_dir(fs, templ_file)
         /\ CASE e = "unset" ->
                   /\ Finish(VarError)
                   /\ log' = Append(log, Ev2("EDITOR", <<>>, <<e>>))
                   /\ UNCHANGED fs
              [] e = "invalid" ->
                   /\ Finish(IoError(<<>>))
                   /\ log' = Append(log, Ev2("EDITOR", <<>>, <<e>>))
                   /\ UNCHANGED fs
              [] OTHER ->
                   /\ fs' = EditorLeaves(fs, templ_file, e)
                   /\ log' = log \o <<Ev2("EDITOR", <<>>, <<e>>),
                                      Ev2("editor", templ_file, AtExit(fs', templ_file))>>
                   /\ Finish(Ok)
    /\ UNCHANGED <<gpc, attempt, newvars, fs0, cwd, name, template, dir, templ, target, templ_files,
                   target_files>>

New ==
    \/ NewStart
    \/ new_templ_name
    \/ new_templ_file
    \/ new_exists
    \/ new_files
    \/ new_copy
    \/ new_editor

(***************************************************************************)
(* The same command run once more after it has failed                      *)
(***************************************************************************)
\* take is repeated, with the arguments it had, after the editor could not
\* be started
TakeAgain ==
    /\ pc = "done"
    /\ attempt < MaxAttempts
    /\ templ.some
    /\ result \in {VarError, IoError(<<>>)}
    /\ attempt' = attempt + 1
    /\ pc' = "find_templ"
    /\ dir' = cwd
    /\ templ' = None
    /\ target' = ROOT
    /\ templ_files' = {}
    /\ target_files' = {}
    /\ result' = Running
    /\ log' = <<>>
    /\ fs0' = fs
    /\ UNCHANGED <<fs, cwd, name, template, newvars, gpc>>

\* new is repeated, with the name, the scope and the files it had, after a
\* copy has failed
NewAgain ==
    /\ pc = "done"
    /\ attempt < MaxAttempts
    /\ templ_file # ROOT
    /\ result.kind = "Io"
    /\ result.path # <<>>
    /\ attempt' = attempt + 1
    /\ pc' = "new_templ_file"
    /\ templ_file' = ROOT
    /\ copied' = 0
    /\ result' = Running
    /\ log' = <<>>
    /\ fs0' = fs
    /\ UNCHANGED <<fs, cwd, name, template, dir, templ, target, templ_files, target_files,
                   templ_name, global, files, gpc>>

(***************************************************************************)
(* Specifications: the program built from the modules (take.rs, utils.rs)  *)
(* and the program built from the single file main.rs                      *)
(***************************************************************************)
find_templ == find_templ_loop(find_templ_in_dir(fs, dir, template))
\* find_templ_fallback that scans the global directory for any template
find_templ_fallback_unfiltered ==
    find_templ_global(find_templ_in_dir(global_dir(fs), GlobalPath, None))

find_templ_fallback ==
    find_templ_global(find_templ_in_dir(global_dir(fs), GlobalPath, template))
main_find_templ == find_templ_loop(main_find_templ_in_dir(fs, dir, template))
main_find_templ_fallback ==
    find_templ_global(main_find_templ_in_dir(global_dir(fs), GlobalPath, template))

Instantiate ==
    \/ take_target
    \/ dir_templ_files
    \/ dir_create
    \/ dir_target_files
    \/ dir_conflict
    \/ dir_copy
    \/ file_exists
    \/ file_copy
    \/ editor
    \/ noop_check

Next ==
    \/ TakeStart
    \/ find_templ
    \/ find_templ_fallback
    \/ Instantiate

MainNext ==
    \/ TakeStart
    \/ main_find_templ
    \/ main_find_templ_fallback
    \/ Instantiate

\* the program with both its commands
TemplaarNext ==
    \/ Next
    \/ New

Spec == Init /\ [][Next]_vars
MainSpec == Init /\ [][MainNext]_vars
TemplaarSpec == Init /\ [][TemplaarNext]_vars

\* take, started in the global templates directory as well
GlobalCwdNext ==
    \/ TakeStartInGlobalDir
    \/ Next

GlobalCwdSpec == Init /\ [][GlobalCwdNext]_vars

\* both commands, and their repetition after a failure
RetryNext ==
    \/ TemplaarNext
    \/ TakeAgain
    \/ NewAgain

RetrySpec == Init /\ [][RetryNext]_vars

(***************************************************************************)
(* The codec of utils.rs on its own: a template name is encoded for a      *)
(* scope as new does, and the file name is decoded as take does             *)
(***************************************************************************)
\* the characters of the template names: letters (those of the extension
\* among them) and the dot
Alphabet == {"t", "a", "r", "."}

RECURSIVE NamesUpTo(_)
NamesUpTo(k) ==
    IF k = 0 THEN {<<>>}
    ELSE LET shorter == NamesUpTo(k - 1)
         IN shorter \cup {Append(n, c) : n \in shorter, c \in Alphabet}

CodecInit ==
    /\ fs = Base
    /\ fs0 = Base
    /\ pc = "encode"
    /\ cwd = ROOT
    /\ name = None
    /\ template = None
    /\ dir = ROOT
    /\ templ = None
    /\ target = ROOT
    /\ templ_files = {}
    /\ target_files = {}
    /\ result = Running
    /\ log = <<>>
    /\ templ_name \in NamesUpTo(MaxNameLen)
    /\ global \in BOOLEAN
    /\ files = <<>>
    /\ templ_file = ROOT
    /\ copied = 0
    /\ gpc = [p \in Procs |-> "idle"]
    /\ attempt = 1

\* the file name of the template, in the working directory `/`
Encode ==
    /\ pc = "encode"
    /\ templ_file' = join(cwd, templ_to_path(templ_name, global))
    /\ pc' = "decode"
    /\ UNCHANGED <<gpc, attempt, fs, fs0, cwd, name, template, dir, templ, target, templ_files,
                   target_files, result, log, templ_name, global, files, copied>>

\* the name of the template, read back from its path
Decode ==
    /\ pc = "decode"
    /\ name' = Some(path_to_templ(templ_file))
    /\ pc' = "decoded"
    /\ UNCHANGED <<gpc, attempt, fs, fs0, cwd, template, dir, templ, target, templ_files,
                   target_files, result, log, newvars>>

CodecNext == Encode \/ Decode

CodecSpec == CodecInit /\ [][CodecNext]_vars

(***************************************************************************)
(* global_dir called by two processes at a time: the test for the          *)
(* directory and its creation are two system calls, and a step of the      *)
(* other process may come between them                                     *)
(***************************************************************************)
RaceInit ==
    /\ fs \in {f \in InitialFilesystems : WellFormed(f)}
    /\ fs0 = fs
    /\ pc = "global_dir"
    /\ cwd = ROOT
    /\ name = None
    /\ template = None
    /\ dir = ROOT
    /\ templ = None
    /\ target = ROOT
    /\ templ_files = {}
    /\ target_files = {}
    /\ result = Running
    /\ log = <<>>
    /\ templ_name = <<>>
    /\ global = FALSE
    /\ files = <<>>
    /\ templ_file = ROOT
    /\ copied = 0
    /\ gpc = [p \in Procs |-> "exists"]
    /\ attempt = 1

\* `if !dir.exists()`
gd_exists(p) ==
    /\ gpc[p] = "exists"
    /\ gpc' = [gpc EXCEPT ![p] = IF exists(fs, GlobalPath) THEN "returned" ELSE "create_dir"]
    /\ UNCHANGED <<fs, fs0, pc, cwd, name, template, dir, templ, target, templ_files,
                   target_files, result, log, newvars, attempt>>

\* `fs::create_dir(&dir)?`: fails when the path exists and when the parent
\* does not
gd_create_dir(p) ==
    /\ gpc[p] = "create_dir"
    /\ IF exists(fs, GlobalPath) \/ ~is_dir(fs, CONFIG)
       THEN /\ gpc' = [gpc EXCEPT ![p] = "failed"]
            /\ UNCHANGED fs
       ELSE /\ fs' = create_dir(fs, GlobalPath)
            /\ gpc' = [gpc EXCEPT ![p] = "returned"]
    /\ UNCHANGED <<fs0, pc, cwd, name, template, dir, templ, target, templ_files,
                   target_files, result, log, newvars, attempt>>

RaceNext == \E p \in Procs : gd_exists(p) \/ gd_create_dir(p)

RaceSpec == RaceInit /\ [][RaceNext]_vars

TypeOK ==
    /\ WellFormed(fs)
    /\ pc \in {"idle", "find_templ", "find_templ_global", "take", "dir_templ_files",
               "dir_create", "dir_target_files", "dir_conflict", "dir_copy",
               "file_exists", "file_copy", "editor", "noop_check", "done",
               "new_templ_name", "new_templ_file", "new_exists", "new_files",
               "new_copy", "new_editor"}
    /\ (pc = "done") = (result # Running)

(***************************************************************************)
(* Vocabulary of the properties                                            *)
(***************************************************************************)
\* the events of the log whose operation is one of ops
Events(ops) == {i \in DOMAIN log : log[i].op \in ops}

\* what lies at p and beneath it
Subtree(f, p) ==
    [q \in {q \in DOMAIN f : Len(q) >= Len(p) /\ SubSeq(q, 1, Len(p)) = p} |-> f[q]]

\* the working directory and its ancestors, nearest first, the root last
Chain(c) == [i \in 1..(Len(c) + 1) |-> SubSeq(c, 1, Len(c) + 1 - i)]

\* the entries of d that qualify for a lookup of t
Qualifying(f, d, t) ==
    {p \in read_dir(f, d) :
        /\ extension(file_name(p)) = Some(AAR)
        /\ t.some => path_to_templ(p) = t.v}

\* a template was resolved and the target path computed
Dispatched == templ.some /\ pc \notin {"idle", "find_templ", "find_templ_global", "take"}

ChildrenAreFiles(f, d) == \A c \in read_dir(f, d) : is_file(f, c)

(***************************************************************************)
(* C1: take with a file template whose target path already exists fails    *)
(* with PathExists naming that path, before any copy and before the editor  *)
(* is invoked, and what was at the target path is left unchanged.           *)
(***************************************************************************)
C1_Case == Dispatched /\ ~is_dir(fs0, templ.v) /\ exists(fs0, target)

C1_ExistingTargetRefused ==
    C1_Case =>
        /\ pc \in {"file_exists", "done"}
        /\ pc = "done" => result = PathExists(target)
        /\ Events({"copy", "editor", "remove", "mkdir"}) = {}
        /\ Subtree(fs, target) = Subtree(fs0, target)

C1_Witness == C1_Case /\ pc = "done" /\ result = PathExists(target) /\ is_file(fs, target)

(***************************************************************************)
(* C3: take with a directory template that has a child which is itself a    *)
(* directory fails with InvalidTemplate, before the target directory is     *)
(* created, before any prompt and before any copy.                          *)
(***************************************************************************)
C3_Case ==
    /\ Dispatched
    /\ is_dir(fs0, templ.v)
    /\ \E c \in read_dir(fs0, templ.v) : is_dir(fs0, c)

C3_SubDirectoryRefused ==
    C3_Case =>
        /\ pc \in {"dir_templ_files", "done"}
        /\ pc = "done" => result = InvalidTemplate(templ.v)
        /\ Events({"mkdir", "prompt_nonempty", "prompt_nochange", "copy", "editor", "remove"}) = {}
        /\ fs = fs0

C3_Witness ==
    C3_Case /\ pc = "done" /\ result.kind = "InvalidTemplate" /\ ~exists(fs, target)

(***************************************************************************)
(* C2: take with a directory template (a flat one: a template with a        *)
(* sub-directory is refused earlier, see C3) validates all conflicts before *)
(* copying.  As claimed: if a child of the target directory has the file    *)
(* name of a child of the template, take fails with PathExists naming a     *)
(* conflicting target path, no template child is copied and the target's    *)
(* children are unchanged.                                                  *)
(***************************************************************************)
C2_Conflicting ==
    Conflicts(read_dir(fs0, templ.v), read_dir(fs0, target))

C2_Case ==
    /\ Dispatched
    /\ is_dir(fs0, templ.v)
    /\ ChildrenAreFiles(fs0, templ.v)
    /\ is_dir(fs0, target)
    /\ C2_Conflicting # {}

C2_NothingCopied ==
    /\ Events({"copy"}) = {}
    /\ Subtree(fs, target) = Subtree(fs0, target)

C2_AsClaimed ==
    C2_Case =>
        /\ pc = "done" => result.kind = "PathExists" /\ result.path \in C2_Conflicting
        /\ C2_NothingCopied

\* the user answered no to "Directory ... is not empty, do you wish to continue?"
C2_Declined ==
    \E i \in Events({"prompt_nonempty"}) : ~user_prompt_bool(log[i].arg)

\* C2, amended: the prompt for the non-empty target comes before the check
\* of the conflicts; take fails with PathExists naming a conflicting target
\* path unless the user declines at that prompt, and then take ends with
\* success.  In both cases no template child is copied and the target's
\* children are unchanged.
C2_ConflictsCheckedBeforeCopy ==
    C2_Case =>
        /\ pc = "done" =>
              IF C2_Declined THEN result = Ok
              ELSE result.kind = "PathExists" /\ result.path \in C2_Conflicting
        /\ C2_NothingCopied

C2_Witness ==
    /\ C2_Case
    /\ pc = "done"
    /\ result.kind = "PathExists"
    /\ Cardinality(read_dir(fs0, templ.v)) > Cardinality(C2_Conflicting)
    /\ Events({"prompt_nonempty"}) # {}

(***************************************************************************)
(* Vocabulary of the properties about resolution                           *)
(***************************************************************************)
\* find_templ has returned
Resolved == pc \notin {"idle", "find_templ", "find_templ_global"}

\* the directories scanned so far, in the order of the scans
IsScan(e) == e.op = "scan"
Scanned == LET scans == SelectSeq(log, IsScan) IN [i \in DOMAIN scans |-> scans[i].path]

\* the levels of the walk that hold an entry qualifying for the lookup
Levels == {i \in 1..(Len(cwd) + 1) : Qualifying(fs0, Chain(cwd)[i], template) # {}}
Least(L) == CHOOSE i \in L : \A j \in L : i <= j
TheOne(Q) == CHOOSE q \in Q : TRUE

\* the global templates directory was scanned or created
GlobalTouched == \E i \in Events({"scan", "mkdir"}) : log[i].path = GlobalPath

(***************************************************************************)
(* C4: when a template named n exists in the working directory or one of    *)
(* its ancestors and one named n exists in the global directory, resolving  *)
(* n returns the local one (the nearest level's, which is ambiguous only    *)
(* when that level holds several, see C5) and never touches the global      *)
(* directory; the global directory is consulted only after every level up   *)
(* to the root was scanned and produced no match.                           *)
(***************************************************************************)
C4_Case ==
    /\ template.some
    /\ Resolved
    /\ Levels # {}
    /\ Qualifying(fs0, GlobalPath, template) # {}

C4_LocalBeforeGlobal ==
    LET chain == Chain(cwd)
        levels == Levels
        local == Qualifying(fs0, chain[Least(levels)], template)
    IN /\ (template.some /\ Resolved /\ levels # {}
             /\ Qualifying(fs0, GlobalPath, template) # {}) =>
             /\ ~GlobalTouched
             /\ templ.some => templ.v \in local
             /\ Cardinality(local) = 1 => templ = Some(TheOne(local))
             /\ ~templ.some =>
                   result.kind = "AmbiguousTemplate" /\ result.dir = chain[Least(levels)]
       /\ \A i \in Events({"scan", "mkdir"}) :
             log[i].path = GlobalPath =>
                 /\ levels = {}
                 /\ \A k \in DOMAIN chain : \E j \in 1..(i - 1) : log[j] = Ev("scan", chain[k])

C4_Witness ==
    /\ C4_Case
    /\ pc = "done"
    /\ result = Ok
    /\ templ = Some(join(W, dot_t_aar))
    /\ cwd = S
    /\ is_file(fs, join(GlobalPath, t_aar))
    /\ is_file(fs, target)
    /\ fs[target].data = "T.w"

(***************************************************************************)
(* C5: when a scanned directory holds two or more qualifying templates,     *)
(* resolution returns none of them: it fails with AmbiguousTemplate, which  *)
(* carries the decoded name of every candidate and the scanned directory,   *)
(* and take creates nothing.                                                *)
(***************************************************************************)
C5_AmbiguityReported ==
    \A i \in Events({"scan"}) :
        LET Q == Qualifying(fs0, log[i].path, template)
        IN Cardinality(Q) >= 2 =>
              /\ i = Len(log)
              /\ pc = "done"
              /\ result.kind = "AmbiguousTemplate"
              /\ result.dir = log[i].path
              /\ \E o \in Orders(Q) : result.names = [k \in DOMAIN o |-> path_to_templ(o[k])]
              /\ ~templ.some
              /\ fs = fs0

C5_Witness ==
    /\ pc = "done"
    /\ result.kind = "AmbiguousTemplate"
    /\ Len(result.names) = 2
    /\ result.names[1] # result.names[2]
    /\ ~template.some
    /\ result.dir = cwd

(***************************************************************************)
(* C6: the walk visits the working directory and then each parent up to and *)
(* including the root, and the first level with a qualifying entry decides: *)
(* exactly one entry is returned and nothing farther is scanned; more than  *)
(* one is ambiguous whatever the farther levels hold; a level without a     *)
(* qualifying entry is skipped.                                             *)
(***************************************************************************)
C6_NearestLevelDecides ==
    LET chain == Chain(cwd)
        levels == Levels
        scanned == Scanned
        local == Qualifying(fs0, chain[Least(levels)], template)
    IN /\ pc = "find_templ" =>
             /\ scanned = SubSeq(chain, 1, Len(scanned))
             /\ Len(scanned) < Len(chain)
             /\ dir = chain[Len(scanned) + 1]
             /\ \A k \in 1..Len(scanned) : k \notin levels
       /\ Resolved =>
             IF levels # {}
             THEN /\ scanned = SubSeq(chain, 1, Least(levels))
                  /\ ~GlobalTouched
                  /\ IF Cardinality(local) = 1
                     THEN /\ templ = Some(TheOne(local))
                          /\ result.kind # "AmbiguousTemplate"
                     ELSE /\ ~templ.some
                          /\ result.kind = "AmbiguousTemplate"
                          /\ result.dir = chain[Least(levels)]
             ELSE /\ Len(scanned) >= Len(chain)
                  /\ SubSeq(scanned, 1, Len(chain)) = chain

\* ambiguous in the working directory although its parent holds a single match
C6_Witness ==
    /\ Resolved
    /\ cwd = S
    /\ result.kind = "AmbiguousTemplate"
    /\ result.dir = S
    /\ Cardinality(Qualifying(fs0, W, template)) = 1
    /\ Scanned = <<S>>

(***************************************************************************)
(* C7: with no template name and no .aar entry in any directory from the    *)
(* working directory up to the root, resolution reports not found without   *)
(* scanning or creating the global directory, and take fails with           *)
(* NoTemplateFound.                                                         *)
(***************************************************************************)
C7_Case == ~template.some /\ pc # "idle" /\ Levels = {}

C7_NotFoundWithoutGlobal ==
    C7_Case =>
        /\ ~GlobalTouched
        /\ fs = fs0
        /\ ~templ.some
        /\ pc \in {"find_templ", "find_templ_global", "take", "done"}
        /\ pc = "done" => result = NoTemplateFound /\ Scanned = Chain(cwd)

C7_Witness ==
    /\ C7_Case
    /\ pc = "done"
    /\ result = NoTemplateFound
    /\ is_dir(fs, CONFIG)
    /\ ~exists(fs, GlobalPath)

(***************************************************************************)
(* C8: with a name given and no match at any level of the walk, the global  *)
(* directory (global_dir succeeding) is scanned with the same filter and    *)
(* decides: a single match is returned and take instantiates it in the      *)
(* working directory, several matches are ambiguous, none is not found.     *)
(***************************************************************************)
C8_Case == template.some /\ Resolved /\ Levels = {} /\ global_dir_ok(fs0)

C8_GlobalFallback ==
    C8_Case =>
        LET Q == Qualifying(fs0, GlobalPath, template)
        IN /\ Scanned = Chain(cwd) \o <<GlobalPath>>
           /\ is_dir(fs, GlobalPath)
           /\ Cardinality(Q) = 0 =>
                 /\ ~templ.some
                 /\ pc \in {"take", "done"}
                 /\ pc = "done" => result = NoTemplateFound
           /\ Cardinality(Q) = 1 =>
                 /\ templ = Some(TheOne(Q))
                 /\ Dispatched =>
                       target = join(cwd, IF name.some THEN name.v ELSE template.v)
                 /\ pc = "editor" /\ is_file(fs0, templ.v) =>
                       /\ is_file(fs, target)
                       /\ fs[target].data = fs0[templ.v].data
           /\ Cardinality(Q) >= 2 =>
                 /\ ~templ.some
                 /\ result.kind = "AmbiguousTemplate"
                 /\ result.dir = GlobalPath

C8_Witness ==
    /\ C8_Case
    /\ pc = "done"
    /\ result = Ok
    /\ templ = Some(join(GlobalPath, t_aar))
    /\ is_file(fs, join(GlobalPath, o_aar))
    /\ target = join(cwd, n_t)
    /\ is_file(fs, target)
    /\ ~exists(fs0, target)

(***************************************************************************)
(* C9: with a name given, resolution considers only the entries whose       *)
(* extension is exactly aar and returns only an entry that decodes to the   *)
(* name; an entry with the same stem and another or no extension neither    *)
(* qualifies nor makes the lookup ambiguous.                                *)
(***************************************************************************)
C9_OnlyAarEntriesQualify ==
    template.some =>
        /\ templ.some =>
              /\ extension(file_name(templ.v)) = Some(AAR)
              /\ path_to_templ(templ.v) = template.v
        /\ result.kind = "AmbiguousTemplate" =>
              Cardinality(Qualifying(fs0, result.dir, template)) = Len(result.names)
        /\ \A i \in Events({"scan"}) :
              LET Q == Qualifying(fs0, log[i].path, template)
              IN Cardinality(Q) = 1 => templ = Some(TheOne(Q))

\* under Spec: the template is found although a file t and a file t.txt lie next to it
C9_ModulesWitness ==
    /\ template = Some(n_t)
    /\ templ = Some(join(S, dot_t_aar))
    /\ is_file(fs0, join(S, n_t))
    /\ is_file(fs0, join(S, n_t_txt))
    /\ result = PathExists(join(S, n_t))

(***************************************************************************)
(* C10: no-op detection.  After the editor has exited on the target of a    *)
(* file template, the user is prompted exactly when the target's content    *)
(* equals the template's; declining removes the target and take succeeds,   *)
(* accepting keeps the target with the template's content, and without a    *)
(* prompt the target stays as the editor left it.  A directory template     *)
(* causes neither this prompt nor a deletion.                               *)
(***************************************************************************)
C10_NoOpDetection ==
    /\ (pc = "done" /\ templ.some /\ is_file(fs0, templ.v) /\ Events({"editor"}) # {}) =>
          LET atExit == log[TheOne(Events({"editor"}))].arg
              prompts == Events({"prompt_nochange"})
          IN /\ result = Ok
             /\ Cardinality(Events({"editor"})) = 1
             /\ (atExit = <<fs[templ.v].data>>) <=> (prompts # {})
             /\ \A i \in prompts :
                   IF user_prompt_bool(log[i].arg)
                   THEN /\ is_file(fs, target)
                        /\ fs[target].data = fs[templ.v].data
                        /\ Events({"remove"}) = {}
                   ELSE ~exists(fs, target)
             /\ prompts = {} => is_file(fs, target) /\ <<fs[target].data>> = atExit
    /\ (templ.some /\ is_dir(fs0, templ.v)) =>
          /\ Events({"prompt_nochange", "remove"}) = {}
          /\ DOMAIN fs0 \subseteq DOMAIN fs

C10_Witness ==
    /\ pc = "done"
    /\ result = Ok
    /\ templ.some
    /\ is_file(fs, templ.v)
    /\ ~exists(fs, target)
    /\ \E i \in Events({"prompt_nochange"}) : log[i].arg = <<"n", "\n">>
    /\ Events({"remove"}) # {}

(***************************************************************************)
(* C11: the target path is the working directory joined with the explicit  *)
(* name if one was supplied, otherwise with the decoded name of the         *)
(* resolved template. Everything take creates lies at that path or          *)
(* directly in it; with an explicit name nothing appears under the          *)
(* template's default name; the target is placed in the working directory   *)
(* also when the template was found in an ancestor or in the global         *)
(* templates directory.                                                     *)
(***************************************************************************)
\* what take has created, copied, edited or removed outside the global
\* templates directory
C11_Written ==
    {i \in Events({"mkdir", "copy", "editor", "remove"}) : log[i].path # GlobalPath}

C11_DefaultPath == join(cwd, path_to_templ(templ.v))

C11_TargetInWorkingDirectory ==
    Dispatched =>
        /\ name.some => target = join(cwd, name.v)
        /\ ~name.some => target = C11_DefaultPath
        /\ \A i \in C11_Written :
             \/ log[i].path = target
             \/ parent(log[i].path) = Some(target)
        /\ \A p \in DOMAIN fs \ DOMAIN fs0 :
             \/ p = GlobalPath
             \/ p = target
             \/ parent(p) = Some(target)
        /\ (name.some /\ name.v # path_to_templ(templ.v)) =>
             Subtree(fs, C11_DefaultPath) = Subtree(fs0, C11_DefaultPath)

\* take finished with an explicit name that differs from the name of the
\* template, which was found outside the working directory (in an ancestor or
\* in the global templates directory), and the target was created
C11_Witness ==
    /\ pc = "done"
    /\ result = Ok
    /\ Dispatched
    /\ name.some
    /\ name.v # path_to_templ(templ.v)
    /\ parent(templ.v) # Some(cwd)
    /\ target = join(cwd, name.v)
    /\ ~exists(fs0, target)
    /\ exists(fs, target)
    /\ ~exists(fs, C11_DefaultPath)

(***************************************************************************)
(* Vocabulary of the properties about the prompts                          *)
(***************************************************************************)
\* the line holds the single letter n, in either case, and besides it
\* nothing but white space
SaysNo(line) ==
    \E k \in DOMAIN line :
        /\ line[k] \in {"n", "N"}
        /\ \A j \in DOMAIN line \ {k} : line[j] \in {" ", "\t", "\n"}

\* the user answered no to "Directory ... is not empty, do you wish to continue?"
DeclinedNonEmpty == \E i \in Events({"prompt_nonempty"}) : SaysNo(log[i].arg)

(***************************************************************************)
(* C12: a successful take of a flat directory template leaves the target   *)
(* directory (created if it was absent) holding exactly its former         *)
(* children, unchanged, plus one file per template child with the same     *)
(* file name and content.                                                  *)
(***************************************************************************)
C12_Case ==
    /\ pc = "done"
    /\ result = Ok
    /\ Dispatched
    /\ is_dir(fs0, templ.v)
    /\ ChildrenAreFiles(fs0, templ.v)

\* the target directory with its former content and a copy of every child of
\* the template
C12_Expected ==
    LET copies == {join(target, file_name(c)) : c \in read_dir(fs0, templ.v)}
        former == Subtree(fs0, target)
        source(p) == CHOOSE c \in read_dir(fs0, templ.v) : file_name(c) = file_name(p)
    IN [p \in {target} \cup DOMAIN former \cup copies |->
          IF p \in DOMAIN former THEN former[p]
          ELSE IF p = target THEN Directory
          ELSE fs0[source(p)]]

\* C12 as stated, for every take that ends with success
C12_AsClaimed == C12_Case => Subtree(fs, target) = C12_Expected

\* C12, amended: a take of a flat directory template that ends with success
\* without the user having declined at the prompt for the non-empty target
\* leaves the target directory with its former children unchanged plus one
\* file per template child, same file name, same content; when the user
\* declined, take ends with success too and the target is as it was.
C12_TemplateInstantiated ==
    C12_Case =>
        /\ ~DeclinedNonEmpty => Subtree(fs, target) = C12_Expected
        /\ DeclinedNonEmpty => Subtree(fs, target) = Subtree(fs0, target)

\* a template of two files was taken into a directory that held a child of
\* another name, and the user agreed to continue
C12_Witness ==
    /\ C12_Case
    /\ ~DeclinedNonEmpty
    /\ read_dir(fs0, target) # {}
    /\ Cardinality(read_dir(fs0, templ.v)) = 2
    /\ Cardinality(read_dir(fs, target)) = 3

(***************************************************************************)
(* C13: with a directory template the confirmation prompt is issued        *)
(* exactly when the target directory already holds a child (never for a    *)
(* target take has just created, never for an empty one), once, before     *)
(* the check of the conflicts and before any copy. If the user declines,   *)
(* take ends with success, has copied nothing, has not started the editor  *)
(* and leaves everything as it was, also when a conflict is present.       *)
(***************************************************************************)
\* a flat directory template, and a target path that is free or a directory
C13_Case ==
    /\ Dispatched
    /\ is_dir(fs0, templ.v)
    /\ ChildrenAreFiles(fs0, templ.v)
    /\ exists(fs0, target) => is_dir(fs0, target)

C13_PromptForNonEmptyTarget ==
    C13_Case =>
        LET prompts == Events({"prompt_nonempty"})
            nonempty == read_dir(fs0, target) # {}
        IN /\ Cardinality(prompts) <= 1
           /\ \A i \in prompts :
                /\ nonempty
                /\ log[i].path = target
                /\ \A j \in Events({"copy", "editor"}) : i < j
           /\ pc \in {"dir_templ_files", "dir_create", "dir_target_files"} =>
                prompts = {} /\ Events({"copy", "editor"}) = {}
           /\ pc \in {"dir_conflict", "dir_copy", "editor", "noop_check", "done"} =>
                (prompts # {}) = nonempty
           /\ (pc = "done" /\ result.kind = "PathExists") =>
                (nonempty /\ prompts # {} /\ ~DeclinedNonEmpty)
           /\ DeclinedNonEmpty =>
                /\ pc = "done"
                /\ result = Ok
                /\ Events({"copy", "editor", "mkdir", "remove"}) = {}
                /\ fs = fs0

\* the user declined although a child of the target has the file name of a
\* child of the template
C13_Witness ==
    /\ C13_Case
    /\ DeclinedNonEmpty
    /\ pc = "done"
    /\ \E c \in read_dir(fs0, templ.v) : exists(fs0, join(target, file_name(c)))

(***************************************************************************)
(* C14: the codec round trip. For every template name without a leading    *)
(* dot (names of the model hold no path separator), decoding the encoding  *)
(* of the name gives the name back, for the local scope (`.n.aar`) and     *)
(* for the global scope (`n.aar`), also when the name holds dots.          *)
(***************************************************************************)
C14_Case ==
    /\ pc = "decoded"
    /\ templ_name # <<>> => Head(templ_name) # "."

C14_RoundTrip == C14_Case => name = Some(templ_name)

\* the round trip does hold for every such name that is not empty, and for the
\* empty name in the local scope
C14_RoundTripNonEmpty ==
    (C14_Case /\ (templ_name # <<>> \/ ~global)) =>
        /\ name = Some(templ_name)
        /\ is_templ(templ_file)

\* a name with a dot in it went round in the global scope
C14_Witness ==
    /\ C14_Case
    /\ global
    /\ templ_name = <<"a", ".", "a">>
    /\ name = Some(templ_name)

(***************************************************************************)
(* C15: whenever take fails with NoTemplateFound, AmbiguousTemplate,       *)
(* PathExists or InvalidTemplate, the filesystem is as it was before the   *)
(* invocation: nothing was created, changed or removed, no write comes     *)
(* before a check that fails.                                              *)
(***************************************************************************)
C15_Failed ==
    /\ pc = "done"
    /\ result.kind \in {"NoTemplateFound", "AmbiguousTemplate", "PathExists",
                        "InvalidTemplate"}

C15_Writes == Events({"mkdir", "copy", "editor", "remove"})

\* C15 as stated
C15_AsClaimed == C15_Failed => (fs = fs0 /\ C15_Writes = {})

\* the access to the global templates directory created it
C15_GlobalDirCreated ==
    /\ template.some
    /\ ~exists(fs0, GlobalPath)
    /\ fs = create_dir(fs0, GlobalPath)
    /\ \A i \in C15_Writes : log[i] = Ev("mkdir", GlobalPath)

\* C15, amended: a failing take has created, changed or removed nothing,
\* but for the global templates directory: a take with a template name that
\* finds no match in the working directory and its ancestors creates that
\* directory, empty, when it is absent, and then fails with NoTemplateFound.
C15_FailureLeavesNoTrace ==
    C15_Failed =>
        \/ fs = fs0 /\ C15_Writes = {}
        \/ result = NoTemplateFound /\ C15_GlobalDirCreated

\* a take that saw its target exist, and a take that found no template after
\* it had created the global templates directory
C15_Witness ==
    /\ C15_Failed
    /\ result.kind = "PathExists"
    /\ is_file(fs0, templ.v)
    /\ fs = fs0

C15_CreatedThenNotFound ==
    /\ C15_Failed
    /\ result = NoTemplateFound
    /\ C15_GlobalDirCreated

(***************************************************************************)
(* C16: a missing or unusable editor is fatal. When $EDITOR is not set or  *)
(* names a command that cannot be started, new and take end with an error  *)
(* and the process with a failure status; the editor is started at most    *)
(* once, with one path: the path of the template for new, the target path  *)
(* for take; a command that ends with success and was not declined at a    *)
(* prompt has run the editor.                                              *)
(***************************************************************************)
C16_EditorIsMandatory ==
    LET env == Events({"EDITOR"})
        spawned == Events({"editor"})
    IN /\ Cardinality(env) <= 1
       /\ Cardinality(spawned) <= 1
       /\ \A i \in env :
            /\ log[i].arg = <<"unset">> =>
                 pc = "done" /\ result = VarError /\ spawned = {}
            /\ log[i].arg = <<"invalid">> =>
                 pc = "done" /\ result.kind = "Io" /\ spawned = {}
            /\ log[i].arg \in {<<"unset">>, <<"invalid">>} => exit_code(result) = 1
       /\ \A j \in spawned :
            /\ log[j].path = IF templ.some THEN target ELSE templ_file
            /\ \E i \in env : i < j /\ log[i].arg \notin {<<"unset">>, <<"invalid">>}
       /\ (pc = "done" /\ result = Ok /\ ~DeclinedNonEmpty) => spawned # {}

\* new ended with an error because $EDITOR was not set
C16_Witness ==
    /\ pc = "done"
    /\ ~templ.some
    /\ templ_file = join(cwd, templ_to_path(templ_name, FALSE))
    /\ result = VarError
    /\ exit_code(result) = 1
    /\ \E i \in Events({"EDITOR"}) : log[i].arg = <<"unset">>

(***************************************************************************)
(* C17: a prompt is answered with no exactly when the line entered,        *)
(* trimmed of the white space around it and in lower case, is `n`; every   *)
(* other input (an empty line, the end of the input, `no`, `y`) is a yes.  *)
(* Both prompts of take follow this rule: for a non-empty target           *)
(* directory a no ends take at once, for an unchanged target file a no     *)
(* removes the target.                                                     *)
(***************************************************************************)
C17_OnlyNIsNo ==
    /\ \A i \in Events({"prompt_nonempty"}) :
         SaysNo(log[i].arg) <=> (pc = "done" /\ result = Ok /\ Len(log) = i)
    /\ \A i \in Events({"prompt_nochange"}) :
         /\ SaysNo(log[i].arg) <=> (Events({"remove"}) # {} /\ ~exists(fs, target))
         /\ ~SaysNo(log[i].arg) <=> (Len(log) = i /\ is_file(fs, target))

\* ` N` was entered at the prompt for the unchanged file, which take removed;
\* `no`, `y`, the empty line and the end of the input are taken for a yes
C17_Witness ==
    /\ \E i \in Events({"prompt_nochange"}) : log[i].arg = <<" ", "N", "\n">>
    /\ ~exists(fs, target)
    /\ pc = "done"

C17_EveryOtherInputIsYes ==
    /\ \E i \in Events({"prompt_nonempty"}) :
         log[i].arg \in {<<"n", "o", "\n">>, <<"y", "\n">>, <<"\n">>, <<>>}
    /\ pc = "dir_conflict"

(***************************************************************************)
(* C18: the access to the global templates directory creates it when it    *)
(* is absent and is idempotent: after a successful access the directory    *)
(* exists; an access when it exists succeeds and changes nothing; the      *)
(* path is the same every time.                                            *)
(***************************************************************************)
\* take has searched the global templates directory, or new has taken it for
\* the directory of the template
C18_Accessed ==
    \/ \E i \in Events({"scan"}) : log[i].path = GlobalPath
    \/ global /\ templ_file # ROOT

C18_Created == \E i \in Events({"mkdir"}) : log[i].path = GlobalPath

C18_LazyAndIdempotent ==
    /\ exists(fs, GlobalPath) => global_dir_ok(fs)
    /\ global_dir_ok(fs) =>
         LET g == global_dir(fs)
         IN /\ is_dir(g, GlobalPath)
            /\ DOMAIN g = DOMAIN fs \cup {GlobalPath}
            /\ \A p \in DOMAIN fs : g[p] = fs[p]
            /\ read_dir(g, GlobalPath) = read_dir(fs, GlobalPath)
            /\ global_dir_ok(g)
            /\ global_dir(g) = g
    /\ C18_Created => C18_Accessed /\ ~exists(fs0, GlobalPath)
    /\ C18_Accessed =>
         /\ is_dir(fs, GlobalPath)
         /\ exists(fs0, GlobalPath) \/ (C18_Created /\ is_dir(fs0, CONFIG))
         /\ Cardinality({i \in Events({"mkdir"}) : log[i].path = GlobalPath}) <= 1
         /\ \A p \in DOMAIN Subtree(fs0, GlobalPath) : exists(fs, p) /\ fs[p] = fs0[p]
         /\ global /\ templ_file # ROOT => parent(templ_file) = Some(GlobalPath)

\* new --global created the directory and the template in it
C18_Witness ==
    /\ global
    /\ pc = "done"
    /\ result = Ok
    /\ C18_Created
    /\ ~exists(fs0, GlobalPath)
    /\ is_file(fs, templ_file)
    /\ global_dir(fs) = fs

(***************************************************************************)
(* Vocabulary of the properties about new                                  *)
(***************************************************************************)
\* new has computed the path of the template
NewDispatched ==
    pc \in {"new_exists", "new_files", "new_copy", "new_editor"}
    \/ (pc = "done" /\ templ_file # ROOT)

(***************************************************************************)
(* C19: new fails with TemplExists when the encoded path of the template   *)
(* for the chosen name and scope already exists, as a file or as a         *)
(* directory; the failure comes before any source file is copied and       *)
(* before the editor is started, and the existing template is unchanged.   *)
(***************************************************************************)
C19_Case == NewDispatched /\ exists(fs0, templ_file)

C19_ExistingTemplateRefused ==
    C19_Case =>
        /\ pc \in {"new_exists", "done"}
        /\ pc = "done" => result = TemplExists(templ_file)
        /\ Events({"mkdir", "copy", "EDITOR", "editor"}) = {}
        /\ Subtree(fs, templ_file) = Subtree(fs0, templ_file)
        /\ fs = fs0

\* new was asked for a template of several files where a directory template
\* of that name existed, and failed
C19_Witness ==
    /\ C19_Case
    /\ pc = "done"
    /\ result.kind = "TemplExists"
    /\ is_dir(fs0, templ_file)
    /\ Len(files) = 2
    /\ \A i \in DOMAIN files : is_file(fs0, files[i])

\* the same with the template a file in the global templates directory
C19_GlobalWitness ==
    /\ C19_Case
    /\ pc = "done"
    /\ global
    /\ is_file(fs0, templ_file)
    /\ Len(files) = 1

(***************************************************************************)
(* C20: new places the template at the encoded path of its scope:          *)
(* `.<name>.aar` in the working directory for a local template,            *)
(* `<name>.aar` in the global templates directory for a global one, and    *)
(* then nothing is created in the working directory. The name is the       *)
(* argument if there is one, otherwise the line read from stdin without    *)
(* the white space around it, and `templ` if nothing is left of the line.  *)
(***************************************************************************)
\* the line without the white space before its first and after its last
\* other character
C20_Entered(line) ==
    LET idx == {k \in DOMAIN line : line[k] \notin {" ", "\t", "\n"}}
    IN IF idx = {} THEN <<>>
       ELSE SubSeq(line, CHOOSE k \in idx : \A j \in idx : k <= j,
                         CHOOSE k \in idx : \A j \in idx : j <= k)

C20_Name ==
    IF name.some THEN name.v
    ELSE LET entered == C20_Entered(log[TheOne(Events({"read_name"}))].arg)
         IN IF entered = <<>> THEN <<"t", "e", "m", "p", "l">> ELSE entered

C20_Path ==
    IF global
    THEN Append(GlobalPath, C20_Name \o <<".", "a", "a", "r">>)
    ELSE Append(cwd, <<".">> \o C20_Name \o <<".", "a", "a", "r">>)

C20_TemplateAtEncodedPath ==
    /\ pc \in {"new_templ_file", "new_exists", "new_files", "new_copy", "new_editor"} =>
         name.some = (Events({"read_name"}) = {})
    /\ pc \in {"new_templ_name", "new_templ_file"} => fs = fs0
    /\ NewDispatched =>
         LET path == C20_Path
         IN /\ templ_file = path
            /\ \A p \in DOMAIN fs \ DOMAIN fs0 :
                 \/ p = GlobalPath /\ global
                 \/ p = path
                 \/ parent(p) = Some(path)
            /\ \A p \in DOMAIN fs0 : exists(fs, p) /\ fs[p] = fs0[p]
            /\ \A i \in Events({"copy", "editor"}) :
                 log[i].path = path \/ parent(log[i].path) = Some(path)
            /\ global => Subtree(fs, cwd) = Subtree(fs0, cwd)
            /\ (pc = "done" /\ result = Ok) =>
                 (exists(fs, path) <=>
                    \/ files # <<>>
                    \/ \E i \in Events({"EDITOR"}) : log[i].arg \in {<<"touch">>, <<"edit">>})

\* new --global without a name argument and with an empty line on stdin has
\* created `templ.aar` in the global templates directory
C20_Witness ==
    /\ NewDispatched
    /\ pc = "done"
    /\ result = Ok
    /\ global
    /\ ~name.some
    /\ \E i \in Events({"read_name"}) : log[i].arg = <<"\n">>
    /\ is_file(fs, join(GlobalPath, <<"t", "e", "m", "p", "l", ".", "a", "a", "r">>))
    /\ Subtree(fs, cwd) = Subtree(fs0, cwd)

\* new with the name ` o ` entered on stdin has created `.o.aar` in the
\* working directory, a directory with the copies of two files
C20_LocalWitness ==
    /\ NewDispatched
    /\ pc = "done"
    /\ result = Ok
    /\ ~global
    /\ \E i \in Events({"read_name"}) : log[i].arg = <<" ", "o", " ", "\n">>
    /\ is_dir(fs, join(cwd, dot_o_aar))
    /\ Cardinality(read_dir(fs, join(cwd, dot_o_aar))) = 2

(***************************************************************************)
(* C21: new with exactly one source file creates a file template with the  *)
(* content of the source; new with two or more source files creates a      *)
(* directory template that holds a copy of every source file under its     *)
(* file name, with the content of that source; the source files are left   *)
(* unchanged. Stated of the moment new has finished copying and hands the  *)
(* template to the editor.                                                 *)
(***************************************************************************)
C21_Case == pc = "new_editor" /\ files # <<>>

C21_SourcesUnchanged ==
    \A i \in DOMAIN files : is_file(fs, files[i]) /\ fs[files[i]] = fs0[files[i]]

C21_CopyOf(i) == join(templ_file, file_name(files[i]))

C21_TemplateFromFiles ==
    C21_Case =>
        /\ C21_SourcesUnchanged
        /\ Len(files) = 1 =>
             is_file(fs, templ_file) /\ fs[templ_file].data = fs0[files[1]].data
        /\ Len(files) > 1 =>
             /\ is_dir(fs, templ_file)
             /\ \A i \in DOMAIN files :
                  /\ is_file(fs, C21_CopyOf(i))
                  /\ fs[C21_CopyOf(i)].data = fs0[files[i]].data

\* the same for source files of pairwise different file names, and what
\* new does otherwise: the copy of the later source replaces the earlier one
C21_DistinctFileNames ==
    \A i, j \in DOMAIN files : file_name(files[i]) = file_name(files[j]) => i = j

C21_TemplateFromDistinctFiles ==
    C21_Case =>
        /\ C21_SourcesUnchanged
        /\ Len(files) = 1 =>
             is_file(fs, templ_file) /\ fs[templ_file].data = fs0[files[1]].data
        /\ Len(files) > 1 =>
             /\ is_dir(fs, templ_file)
             /\ read_dir(fs, templ_file) = {C21_CopyOf(i) : i \in DOMAIN files}
             /\ \A i \in DOMAIN files :
                  /\ is_file(fs, C21_CopyOf(i))
                  /\ (\A j \in DOMAIN files : file_name(files[j]) = file_name(files[i]) => j <= i)
                       => fs[C21_CopyOf(i)].data = fs0[files[i]].data

\* two files of different names were copied into a directory template
C21_Witness ==
    /\ C21_Case
    /\ Len(files) = 2
    /\ C21_DistinctFileNames
    /\ Cardinality(read_dir(fs, templ_file)) = 2

\* two files of the same name were given: one file is in the template
C21_SameFileName ==
    /\ C21_Case
    /\ Len(files) = 2
    /\ ~C21_DistinctFileNames
    /\ Cardinality(read_dir(fs, templ_file)) = 1

(***************************************************************************)
(* C22: take with a directory template whose target path exists as a       *)
(* regular file fails with PathExists and leaves that file unchanged.      *)
(***************************************************************************)
C22_Case ==
    /\ Dispatched
    /\ is_dir(fs0, templ.v)
    /\ ChildrenAreFiles(fs0, templ.v)
    /\ is_file(fs0, target)

C22_FileTargetRefused ==
    C22_Case =>
        /\ pc = "done" => result.kind = "PathExists"
        /\ is_file(fs, target)
        /\ fs[target] = fs0[target]

\* what take does there: the listing of the target fails, take ends with the
\* error of the listing, nothing was written
C22_FileTargetFailsListing ==
    C22_Case =>
        /\ pc \in {"dir_templ_files", "dir_create", "dir_target_files", "done"}
        /\ pc = "done" => result = IoError(target)
        /\ fs = fs0
        /\ Events({"mkdir", "copy", "prompt_nonempty", "EDITOR", "editor", "remove"}) = {}

C22_Witness == C22_Case /\ pc = "done" /\ result.kind = "Io"

(***************************************************************************)
(* C23: resolution terminates. Each step of the walk replaces the          *)
(* directory by its parent; a walk that finds nothing ends at the root     *)
(* after as many scans as the working directory has components plus one    *)
(* and is followed by at most one scan of the global templates directory;  *)
(* every directory is scanned at most once.                                *)
(***************************************************************************)
\* the scans are the working directory, its parent and so on, as far as the
\* walk has come, and after the root at most the global templates directory
C23_WalkThenGlobal(scans, chain) ==
    LET n == Len(scans)
        k == Len(chain)
    IN /\ n <= k + 1
       /\ \A i \in 1..n : i <= k => scans[i] = chain[i]
       /\ n = k + 1 => scans[n] = GlobalPath /\ template.some
       /\ \A i \in 2..k : parent(chain[i - 1]) = Some(chain[i])
       /\ chain[k] = ROOT
       /\ pc = "find_templ" => n < k /\ dir = chain[n + 1]
       /\ pc = "find_templ_global" => n = k
       /\ (Resolved /\ ~templ.some /\ result.kind \in {"running", "NoTemplateFound"}) =>
            n = IF template.some THEN k + 1 ELSE k

\* C23 as stated
C23_AsClaimed ==
    LET scans == Scanned
    IN /\ C23_WalkThenGlobal(scans, Chain(cwd))
       /\ \A i, j \in DOMAIN scans : scans[i] = scans[j] => i = j

\* C23, amended: no directory is scanned twice, but for the global templates
\* directory when it is the working directory or one of its ancestors: the
\* walk scans it, and the fallback scans it again
C23_ResolutionTerminates ==
    LET scans == Scanned
        chain == Chain(cwd)
    IN /\ C23_WalkThenGlobal(scans, chain)
       /\ \A i, j \in DOMAIN scans :
            (scans[i] = scans[j] /\ i < j) =>
                /\ j = Len(chain) + 1
                /\ scans[i] = GlobalPath

\* a walk from /w/s that found nothing: three scans and the one of the global
\* templates directory
C23_Witness ==
    /\ cwd = S
    /\ Resolved
    /\ Scanned = <<S, W, ROOT, GlobalPath>>

\* a walk from the global templates directory that found nothing scans it
\* again
C23_ScannedTwice ==
    /\ cwd = GlobalPath
    /\ Resolved
    /\ Scanned = <<GlobalPath, CONFIG, HOME, ROOT, GlobalPath>>

(***************************************************************************)
(* C26: with no template name given, resolution never returns a template   *)
(* that lies in the global templates directory, whatever the working       *)
(* directory is, the global templates directory included.                  *)
(***************************************************************************)
C26_Case == Resolved /\ ~template.some /\ templ.some

\* C26 as stated
C26_AsClaimed == C26_Case => parent(templ.v) # Some(GlobalPath)

\* C26, amended: with no template name the fallback to the global templates
\* directory is not taken (the directory is neither created nor scanned for
\* its own sake); the template returned lies in the working directory or in
\* one of its ancestors, hence in the global templates directory only when
\* that is the working directory or one of its ancestors
C26_NoFallbackWithoutName ==
    (Resolved /\ ~template.some) =>
        LET chain == Chain(cwd)
            scans == Scanned
        IN /\ Len(scans) <= Len(chain)
           /\ \A i \in DOMAIN scans : scans[i] = chain[i]
           /\ \A i \in Events({"mkdir"}) : log[i].path # GlobalPath
           /\ templ.some =>
                /\ \E i \in DOMAIN chain : parent(templ.v) = Some(chain[i])
                /\ parent(templ.v) = Some(GlobalPath) =>
                     \E i \in DOMAIN chain : chain[i] = GlobalPath

\* no name, templates in the global templates directory, none above the
\* working directory: nothing is returned
C26_Witness ==
    /\ Resolved
    /\ ~template.some
    /\ cwd = S
    /\ Qualifying(fs0, GlobalPath, None) # {}
    /\ ~templ.some
    /\ pc = "done"

\* take without a name in the global templates directory takes its template
C26_InGlobalDir ==
    /\ C26_Case
    /\ cwd = GlobalPath
    /\ parent(templ.v) = Some(GlobalPath)

(***************************************************************************)
(* C24: when two invocations access the global templates directory at the  *)
(* same time while it is absent, the race on its creation is benign: in    *)
(* every interleaving both obtain the directory, and neither fails because *)
(* the other one created it between its test and its creation.             *)
(***************************************************************************)
C24_Case == is_dir(fs0, CONFIG) /\ ~exists(fs0, GlobalPath)

C24_RaceIsBenign ==
    C24_Case => \A p \in Procs : gpc[p] # "failed"

\* what does hold: one of the two creates the directory, the directory
\* exists once one of them has returned, and it is never removed
C24_OneCreates ==
    C24_Case =>
        /\ \E p \in Procs : gpc[p] # "failed"
        /\ (\E p \in Procs : gpc[p] \in {"returned", "failed"}) => is_dir(fs, GlobalPath)
        /\ \A p \in DOMAIN fs0 : exists(fs, p) /\ fs[p] = fs0[p]

\* both found the directory absent, one created it, the other failed
C24_Witness ==
    /\ C24_Case
    /\ \E p, q \in Procs : gpc[p] = "returned" /\ gpc[q] = "failed"
    /\ is_dir(fs, GlobalPath)

(***************************************************************************)
(* C25: take reads $EDITOR and starts the editor only after the target has *)
(* been copied in full. If $EDITOR is not set or the command cannot be     *)
(* started, take ends with the error and the target it has created stays   *)
(* (the file, or the directory with its files): nothing is rolled back,    *)
(* and the same take run again for a file template fails with PathExists.  *)
(* An editor that runs and exits with a failure status is no error.        *)
(***************************************************************************)
\* the target holds what take copies from the template
C25_Copied ==
    IF is_file(fs, templ.v)
    THEN is_file(fs, target) /\ fs[target].data = fs[templ.v].data
    ELSE /\ is_dir(fs, target)
         /\ \A c \in read_dir(fs, templ.v) :
              /\ is_file(fs, join(target, file_name(c)))
              /\ fs[join(target, file_name(c))] = fs[c]

C25_NoRollbackAfterEditorFailure ==
    /\ (templ.some /\ Events({"EDITOR"}) # {}) =>
         LET e == TheOne(Events({"EDITOR"}))
         IN /\ \A i \in Events({"copy"}) : i < e
            /\ Cardinality(Events({"copy"})) =
                 IF is_file(fs, templ.v) THEN 1 ELSE Cardinality(read_dir(fs, templ.v))
            /\ log[e].arg \in {<<"unset">>, <<"invalid">>} =>
                 /\ pc = "done"
                 /\ result = IF log[e].arg = <<"unset">> THEN VarError ELSE IoError(<<>>)
                 /\ Events({"editor", "remove"}) = {}
                 /\ C25_Copied
                 /\ \A p \in DOMAIN fs0 : exists(fs, p) /\ fs[p] = fs0[p]
            /\ log[e].arg = <<"false">> =>
                 /\ pc \in {"noop_check", "done"}
                 /\ pc = "done" => result = Ok
    /\ (attempt > 1 /\ Dispatched /\ is_file(fs, templ.v)) =>
         /\ exists(fs0, target)
         /\ pc \in {"file_exists", "done"}
         /\ pc = "done" => result = PathExists(target)
         /\ fs = fs0

\* take of a file template, run again after $EDITOR was found unset, has
\* failed because of the target the first run left
C25_Witness ==
    /\ attempt = 2
    /\ pc = "done"
    /\ Dispatched
    /\ is_file(fs, templ.v)
    /\ result = PathExists(target)
    /\ fs[target].data = fs[templ.v].data

\* the editor has exited with a failure status and take has ended with success
C25_FailureStatusIgnored ==
    /\ templ.some
    /\ pc = "done"
    /\ result = Ok
    /\ \E i \in Events({"EDITOR"}) : log[i].arg = <<"false">>

(***************************************************************************)
(* C27: matching ignores the scope encoding. In every directory scanned,   *)
(* a level of the walk or the global templates directory, `.n.aar` and     *)
(* `n.aar` both decode to n and qualify for a lookup of n: the first such  *)
(* directory that holds one of them gives it as the result (an un-dotted   *)
(* `n.aar` in the walk, a dotted `.n.aar` in the global templates          *)
(* directory), and if it holds both the lookup fails with                  *)
(* AmbiguousTemplate, the candidate names being n twice.                   *)
(***************************************************************************)
C27_Dotted(d, n) == Append(d, <<".">> \o n \o <<".", "a", "a", "r">>)
C27_Plain(d, n) == Append(d, n \o <<".", "a", "a", "r">>)
C27_Hits(d, n) == {p \in {C27_Dotted(d, n), C27_Plain(d, n)} : exists(fs0, p)}

C27_ScopeEncodingIgnored ==
    (Resolved /\ template.some) =>
        LET n == template.v
            levels == Chain(cwd) \o <<GlobalPath>>
            hit == {i \in DOMAIN levels : C27_Hits(levels[i], n) # {}}
        IN hit # {} =>
             LET d == levels[Least(hit)]
                 hits == C27_Hits(d, n)
             IN IF Cardinality(hits) = 2
                THEN /\ pc = "done"
                     /\ result = AmbiguousTemplate(<<n, n>>, d)
                     /\ ~templ.some
                ELSE /\ templ = Some(TheOne(hits))
                     /\ result.kind # "AmbiguousTemplate"

\* the dotted `.t.aar` of the global templates directory was returned by the
\* fallback
C27_Witness ==
    /\ Resolved
    /\ template = Some(n_t)
    /\ templ = Some(C27_Dotted(GlobalPath, n_t))
    /\ ~exists(fs0, C27_Plain(GlobalPath, n_t))

\* the un-dotted `t.aar` of the working directory was returned by the walk
C27_PlainInWalk ==
    /\ Resolved
    /\ template = Some(n_t)
    /\ templ = Some(C27_Plain(cwd, n_t))

\* a directory holds both: the names reported are t and t
C27_BothAmbiguous ==
    /\ pc = "done"
    /\ template = Some(n_t)
    /\ result.kind = "AmbiguousTemplate"
    /\ result.names = <<n_t, n_t>>
    /\ Cardinality(C27_Hits(result.dir, n_t)) = 2

(***************************************************************************)
(* C28: new from several files                                             *)
(***************************************************************************)
\* a copy of new has failed
C28_CopyFailed ==
    /\ pc = "done"
    /\ templ_file # ROOT
    /\ result.kind = "Io"
    /\ result.path # <<>>

\* the copies of the first k sources
C28_Copies(k) == {join(templ_file, file_name(files[i])) : i \in 1..k}

\* C28: new with two or more sources creates the template directory before
\* it copies anything and copies the sources in the order of the arguments;
\* the directory template of a new that got through its copies holds regular
\* files only; when the copy of a source fails (the source is missing or is
\* a directory) new fails and leaves the template directory with the copies
\* made so far, and new repeated with the same name fails with TemplExists
\* and changes nothing; with exactly one source a failed copy leaves nothing
\* at the template's path, so the repetition is not refused.
C28_PartialTemplateLeft ==
    LET cs == Events({"copy"})
        mk == {i \in Events({"mkdir"}) : log[i].path = templ_file}
    IN /\ (NewDispatched /\ Len(files) >= 2) =>
            /\ Cardinality(cs) = copied
            /\ cs # {} => Cardinality(mk) = 1
            /\ \A i \in cs :
                 LET k == Cardinality({j \in cs : j <= i})
                 IN /\ \A m \in mk : m < i
                    /\ log[i].arg = files[k]
                    /\ log[i].path = join(templ_file, file_name(files[k]))
            /\ (pc = "new_editor" \/ (pc = "done" /\ result = Ok)) =>
                 /\ copied = Len(files)
                 /\ is_dir(fs, templ_file)
                 /\ read_dir(fs, templ_file) = C28_Copies(Len(files))
                 /\ ChildrenAreFiles(fs, templ_file)
       /\ C28_CopyFailed =>
            /\ ~is_file(fs, result.path)
            /\ Events({"EDITOR", "editor"}) = {}
            /\ Len(files) >= 2 =>
                 /\ copied < Len(files)
                 /\ result.path = files[copied + 1]
                 /\ ~exists(fs0, templ_file)
                 /\ is_dir(fs, templ_file)
                 /\ read_dir(fs, templ_file) = C28_Copies(copied)
                 /\ ChildrenAreFiles(fs, templ_file)
            /\ Len(files) = 1 =>
                 /\ result.path = files[1]
                 /\ ~exists(fs, templ_file)
                 /\ cs = {} /\ mk = {}
       /\ (attempt > 1 /\ NewDispatched) =>
            /\ Len(files) >= 2 =>
                 /\ is_dir(fs0, templ_file)
                 /\ pc \in {"new_exists", "done"}
                 /\ pc = "done" => result = TemplExists(templ_file)
                 /\ fs = fs0
            /\ Len(files) = 1 =>
                 /\ ~exists(fs0, templ_file)
                 /\ pc = "done" => result = IoError(files[1])

\* new from two sources, repeated after the copy of the second source had
\* failed, has been refused because of the directory the first run left
C28_Witness ==
    /\ attempt = 2
    /\ pc = "done"
    /\ Len(files) = 2
    /\ result = TemplExists(templ_file)
    /\ is_dir(fs, templ_file)
    /\ read_dir(fs, templ_file) = C28_Copies(1)

\* the copy of a source that is a directory has failed
C28_DirectorySource ==
    /\ C28_CopyFailed
    /\ Len(files) >= 2
    /\ is_dir(fs, result.path)

\* the copy of the only source has failed and nothing is at the template's path
C28_OneSourceFailed ==
    /\ C28_CopyFailed
    /\ Len(files) = 1
    /\ ~exists(fs, templ_file)

====
